---------------------------- MODULE Spec2Model ----------------------------
(***************************************************************************)
(* Verification model of the population-weighting and elicitation core of *)
(* ssr_service: draw allocation (_allocate_draws), persona bucket          *)
(* composition (combine_persona_buckets) and the concurrent elicitation    *)
(* pipeline of run_simulation / _simulate_persona / generate_batch.        *)
(*                                                                         *)
(* Three specifications share the module's variables; each leaves the      *)
(* variables of the other two at their idle values:                        *)
(*   SpecAlloc    _allocate_draws applied to bounded inputs                *)
(*   SpecCombine  combine_persona_buckets applied to bounded inputs        *)
(*   Spec         run_simulation's question loop with its draw tasks       *)
(*                                                                         *)
(* Weights are floats in the source.  They are modelled as exact           *)
(* rationals: a weight vector is a sequence of naturals over a common      *)
(* denominator, so floor() and the fractional part are integer division    *)
(* and remainder.                                                          *)
(***************************************************************************)
EXTENDS Integers, Sequences, FiniteSets, TLC

VARIABLES
    \* ---- _allocate_draws ------------------------------------------------
    a_pc,        \* "call" before the call, "ret" after it returned
    a_weights,   \* [p.weight for p in personas], relative naturals
    a_opts,      \* SimulationOptions: n, total_n (0 stands for None), stratified
    a_draws,     \* the returned list of draw counts
    \* ---- combine_persona_buckets ----------------------------------------
    c_pc,        \* "call" before the call, "ret" after it returned or raised
    c_buckets,   \* the buckets argument
    c_out,       \* what the call produced
    \* ---- ensure_weights -------------------------------------------------
    e_pc,        \* "call", "once" (applied once), "twice" (applied again)
    e_personas,  \* the personas argument
    e_target,    \* the target_total argument
    e_once,      \* ensure_weights(personas, target_total)
    e_twice,     \* ensure_weights of that result, same target_total
    \* ---- rake_personas --------------------------------------------------
    r_pc,        \* "call", "loop" (in the iterations), "ret", "raised"
    r_in,        \* the arguments: personas, marginals, config
    r_weights,   \* the weights of personas_list
    r_iter,      \* the iteration of the outer loop, 1-based
    r_field,     \* the position in targets.items() of the next field
    r_mult,      \* per persona, the factor the last field adjustment applied
    \* ---- SemanticSimilarityRater.score_text -----------------------------
    k_pc,        \* "call" before the call, "ret" after it returned
    k_bank,      \* the embedded anchor sets of the rater
    k_text,      \* the embedding of the text
    k_pmf,       \* the returned vector
    \* ---- run_simulation -------------------------------------------------
    s_in,        \* the inputs of the run: draw_counts, weights, providers, ...
    s_phase,     \* "eliciting" (awaiting the gather), "returned", "raised"
    s_q,         \* the question of the loop, 1-based
    s_pc,        \* per draw task: "wait", "calling", "done", "failed"
    s_calls,     \* per draw task: the generate_rationale calls it made
    s_sem,       \* per generate_batch call: the free permits of its semaphore
    s_results,   \* per generate_batch call: its results list
    s_finished,  \* the persona tasks that completed, in completion order
    s_gathered,  \* what the gather of the persona tasks collected
    s_pqr,       \* persona_question_results
    s_resp,      \* respondent_tables
    s_aggs,      \* question_aggregates (with the bootstrap input)
    s_error,     \* the exception run_simulation ended with
    s_response,  \* the SimulationResponse returned
    \* ---- likert_metrics -------------------------------------------------
    l_pc,        \* "call" before the call, "ret" after it returned
    l_ratings,   \* the ratings argument, as a list
    l_pmf,       \* the pmf argument, in units of 1/LikDen
    l_out,       \* the returned (mean, top2), in units of 1/LikDen
    \* ---- object identity across combine_persona_buckets / rake_personas ----
    al_pc,       \* "call", "returned" after the call, "mutated" after a later mutation
    al_in,       \* the call and its arguments, with the objects as they were before it
    al_heap,     \* the PersonaSpec objects, by identity
    al_lists,    \* the list objects held by list-valued fields, by identity
    al_out,      \* the identities of the returned personas
    \* ---- the response cache (cache.py) -------------------------------------
    ch_pc,       \* "run" while the cache is in use
    ch_cache,    \* _CACHE, key -> response
    ch_added,    \* per (namespace, prompt) pair added, the response added last
    ch_count,    \* the number of add_to_cache calls made
    ch_last,     \* the last call, with what it returned
    \* ---- the run store (db.py) ---------------------------------------------
    db_pc,       \* "run" while the store is in use
    db_rows,     \* the runs table, id -> row
    db_issued,   \* the number of ids save_run has returned
    db_saved,    \* per id returned by save_run, the request and response saved
    db_gone,     \* the ids delete_run has deleted
    db_last,     \* the last call, with what it returned
    \* ---- PersonaLibrary (personas.py) --------------------------------------
    lb_pc,       \* "run" once the library is constructed
    lb_disk,     \* the group files of the directory, group name -> content
    lb_groups,   \* self._groups, group name -> the content loaded
    lb_last      \* the last get_group call, the state it met and its outcome

allocVars == <<a_pc, a_weights, a_opts, a_draws>>
combVars  == <<c_pc, c_buckets, c_out>>
simVars   == <<s_in, s_phase, s_q, s_pc, s_calls, s_sem, s_results, s_finished,
               s_gathered, s_pqr, s_resp, s_aggs, s_error, s_response>>
ensVars   == <<e_pc, e_personas, e_target, e_once, e_twice>>
rakeVars  == <<r_pc, r_in, r_weights, r_iter, r_field, r_mult>>
scoreVars == <<k_pc, k_bank, k_text, k_pmf>>
likVars   == <<l_pc, l_ratings, l_pmf, l_out>>
aliasVars == <<al_pc, al_in, al_heap, al_lists, al_out>>
cacheVars == <<ch_pc, ch_cache, ch_added, ch_count, ch_last>>
dbVars    == <<db_pc, db_rows, db_issued, db_saved, db_gone, db_last>>
libVars   == <<lb_pc, lb_disk, lb_groups, lb_last>>
coreVars  == <<allocVars, combVars, ensVars, rakeVars, scoreVars, simVars>>
auxVars   == <<likVars, aliasVars, cacheVars, dbVars, libVars>>
vars      == <<coreVars, auxVars>>

---------------------------------------------------------------------------
\* Generic helpers

\* Optional values: None, or a value
None == <<>>
Some(x) == <<x>>

Max(a, b) == IF a >= b THEN a ELSE b
Min(a, b) == IF a <= b THEN a ELSE b

\* s[1] + ... + s[n]
RECURSIVE SumTo(_, _)
SumTo(s, n) == IF n = 0 THEN 0 ELSE s[n] + SumTo(s, n - 1)

SeqSum(s) == SumTo(s, Len(s))

\* All permutations of 1..n, as sequences
Perms(n) == { p \in [1..n -> 1..n] : \A i, j \in 1..n : p[i] = p[j] => i = j }

\* The results numpy.argsort may return for the keys: every permutation that
\* lists the indices by ascending key.  The default sort kind is not stable,
\* so the order of equal keys is any.
ArgSorts(key) ==
    { p \in Perms(Len(key)) :
        \A i, j \in 1..Len(key) : i < j => key[p[i]] <= key[p[j]] }

---------------------------------------------------------------------------
\* Bounds of the _allocate_draws inputs

MaxAllocPersonas == 3
MaxAllocWeight == 2
MaxAllocTotal == 5

\* The idle values the variables keep under the other specifications
AllocIdle ==
    /\ a_pc = "idle"
    /\ a_weights = <<>>
    /\ a_opts = <<>>
    /\ a_draws = <<>>

---------------------------------------------------------------------------
\* _allocate_draws

\* `if options.total_n: ... elif options.stratified: ... else: return [n]*len`
\* the flat branch is taken when neither is set
FlatModeNever(options) == FALSE
FlatMode(options) == options.total_n = 0 /\ ~options.stratified

AllocTotal(options) ==
    IF options.total_n # 0 THEN options.total_n ELSE options.n

\* weights / weights.sum(), or the uniform vector when the sum is 0: the
\* numerators, over the denominator WeightDen
WeightNum(weights) ==
    IF SeqSum(weights) = 0 THEN [i \in 1..Len(weights) |-> 1] ELSE weights
WeightDen(weights) ==
    IF SeqSum(weights) = 0 THEN Len(weights) ELSE SeqSum(weights)

\* raw = weights * total, as numerators over WeightDen
RawNum(weights, total) ==
    [i \in 1..Len(weights) |-> WeightNum(weights)[i] * total]

FloorRaw(weights, total) ==
    [i \in 1..Len(weights) |-> RawNum(weights, total)[i] \div WeightDen(weights)]

\* fractional = raw - floor(raw), as numerators over WeightDen
Fractional(weights, total) ==
    [i \in 1..Len(weights) |-> RawNum(weights, total)[i] % WeightDen(weights)]

\* base = np.maximum(base, 1)
ClampBaseNone(base) == base
ClampBase(base) == [i \in 1..Len(base) |-> Max(base[i], 1)]

BaseDraws(weights, total) == ClampBase(FloorRaw(weights, total))

AllocRemainder(weights, total) == total - SeqSum(BaseDraws(weights, total))

\* for idx in order[:remainder]: base[idx] += 1
AddExtraShort(base, order, remainder) ==
    [i \in 1..Len(base) |->
        base[i] + (IF \E k \in 1..Min(remainder - 1, Len(order)) : order[k] = i
                   THEN 1 ELSE 0)]
AddExtra(base, order, remainder) ==
    [i \in 1..Len(base) |->
        base[i] + (IF \E k \in 1..Min(remainder, Len(order)) : order[k] = i
                   THEN 1 ELSE 0)]

\* the guard of the removal: `if base[candidate] > 1`
MayRemoveAtOne(count) == count > 0
MayRemove(count) == count > 1

\* while remainder < 0 and idx < len(order): remove one draw from
\* order[idx] while it has more than 1, else move to the next index
RECURSIVE RemoveLoop(_, _, _, _)
RemoveLoop(base, order, remainder, idx) ==
    IF ~(remainder < 0 /\ idx <= Len(order)) THEN base
    ELSE IF MayRemove(base[order[idx]])
         THEN RemoveLoop([base EXCEPT ![order[idx]] = @ - 1], order,
                         remainder + 1, idx)
         ELSE RemoveLoop(base, order, remainder, idx + 1)

\* The orders argsort may produce in the branch the call takes
AllocOrders(weights, options) ==
    IF weights = <<>> \/ FlatMode(options) THEN {<<>>}
    ELSE LET total == AllocTotal(options)
             frac  == Fractional(weights, total)
             rem   == AllocRemainder(weights, total)
         IN  IF rem > 0
             THEN ArgSorts([i \in 1..Len(weights) |-> 0 - frac[i]])
             ELSE IF rem < 0 THEN ArgSorts(frac) ELSE {<<>>}

AllocateDraws(weights, options, order) ==
    IF weights = <<>> THEN <<>>
    ELSE IF FlatMode(options) THEN [i \in 1..Len(weights) |-> options.n]
    ELSE LET total == AllocTotal(options)
             base  == BaseDraws(weights, total)
             rem   == AllocRemainder(weights, total)
         IN  IF rem > 0 THEN AddExtra(base, order, rem)
             ELSE IF rem < 0 THEN RemoveLoop(base, order, rem, 1)
             ELSE base

\* The personas reaching _allocate_draws are never empty (_assemble_panel
\* raises before) and their weights are >= 0 (PersonaSpec.weight, ge=0)
AllocInputs ==
    UNION { [1..n -> 0..MaxAllocWeight] : n \in 1..MaxAllocPersonas }

AllocOptions ==
    [n : 1..MaxAllocTotal, total_n : 0..MaxAllocTotal, stratified : BOOLEAN]

CombIdle ==
    /\ c_pc = "idle"
    /\ c_buckets = <<>>
    /\ c_out = <<>>

EnsIdle ==
    /\ e_pc = "idle"
    /\ e_personas = <<>>
    /\ e_target = <<>>
    /\ e_once = <<>>
    /\ e_twice = <<>>

RakeIdle ==
    /\ r_pc = "idle"
    /\ r_in = <<>>
    /\ r_weights = <<>>
    /\ r_iter = 0
    /\ r_field = 0
    /\ r_mult = <<>>

ScoreIdle ==
    /\ k_pc = "idle"
    /\ k_bank = <<>>
    /\ k_text = <<>>
    /\ k_pmf = <<>>

LikIdle ==
    /\ l_pc = "idle"
    /\ l_ratings = <<>>
    /\ l_pmf = <<>>
    /\ l_out = <<>>

AliasIdle ==
    /\ al_pc = "idle"
    /\ al_in = <<>>
    /\ al_heap = <<>>
    /\ al_lists = <<>>
    /\ al_out = <<>>

CacheIdle ==
    /\ ch_pc = "idle"
    /\ ch_cache = <<>>
    /\ ch_added = <<>>
    /\ ch_count = 0
    /\ ch_last = <<>>

DbIdle ==
    /\ db_pc = "idle"
    /\ db_rows = <<>>
    /\ db_issued = 0
    /\ db_saved = <<>>
    /\ db_gone = {}
    /\ db_last = <<>>

LibIdle ==
    /\ lb_pc = "idle"
    /\ lb_disk = <<>>
    /\ lb_groups = <<>>
    /\ lb_last = <<>>

SimIdle ==
    /\ s_in = <<>>
    /\ s_phase = "idle"
    /\ s_q = 0
    /\ s_pc = <<>>
    /\ s_calls = <<>>
    /\ s_sem = <<>>
    /\ s_results = <<>>
    /\ s_finished = <<>>
    /\ s_gathered = <<>>
    /\ s_pqr = <<>>
    /\ s_resp = <<>>
    /\ s_aggs = <<>>
    /\ s_error = <<>>
    /\ s_response = <<>>

CoreIdle ==
    /\ AllocIdle
    /\ CombIdle
    /\ EnsIdle
    /\ RakeIdle
    /\ ScoreIdle
    /\ SimIdle

AuxIdle ==
    /\ LikIdle
    /\ AliasIdle
    /\ CacheIdle
    /\ DbIdle
    /\ LibIdle

InitAlloc ==
    /\ a_pc = "call"
    /\ a_weights \in AllocInputs
    /\ a_opts \in AllocOptions
    /\ a_draws = <<>>
    /\ CombIdle
    /\ EnsIdle
    /\ RakeIdle
    /\ ScoreIdle
    /\ SimIdle
    /\ AuxIdle

Allocate ==
    /\ a_pc = "call"
    /\ \E order \in AllocOrders(a_weights, a_opts) :
         a_draws' = AllocateDraws(a_weights, a_opts, order)
    /\ a_pc' = "ret"
    /\ UNCHANGED <<a_weights, a_opts, combVars, ensVars, rakeVars, scoreVars, simVars, auxVars>>

NextAlloc == Allocate

SpecAlloc == InitAlloc /\ [][NextAlloc]_vars

---------------------------------------------------------------------------
\* Exact rationals <<numerator, denominator>> in lowest terms, for weights

RECURSIVE GCD(_, _)
GCD(a, b) == IF b = 0 THEN a ELSE GCD(b, a % b)

Rat(n, d) == LET g == GCD(n, d) IN <<n \div g, d \div g>>
RZero == <<0, 1>>
ROne == <<1, 1>>
RInt(n) == <<n, 1>>

RAdd(x, y) ==
    LET g == GCD(x[2], y[2])
        l == (x[2] \div g) * y[2]
    IN  Rat(x[1] * (l \div x[2]) + y[1] * (l \div y[2]), l)

RMul(x, y) ==
    LET g1 == GCD(x[1], y[2])
        g2 == GCD(y[1], x[2])
    IN  <<(x[1] \div g1) * (y[1] \div g2), (x[2] \div g2) * (y[2] \div g1)>>

\* x / y for y > 0
RDiv(x, y) == RMul(x, <<y[2], y[1]>>)

RLess(x, y) == x[1] * y[2] < y[1] * x[2]
RPos(x) == x[1] > 0

\* max(w, 0.0)
RMax0(x) == IF x[1] < 0 THEN RZero ELSE x

RECURSIVE RSumTo(_, _)
RSumTo(ws, n) == IF n = 0 THEN RZero ELSE RAdd(ws[n], RSumTo(ws, n - 1))

\* sum(max(p.weight, 0.0) for p in personas)
WeightSum(personas) ==
    RSumTo([i \in 1..Len(personas) |-> RMax0(personas[i].weight)], Len(personas))

---------------------------------------------------------------------------
\* Bounds and sample values of the combine_persona_buckets inputs

MaxBuckets == 3
MaxCombPersonas == 3

\* persona names and relative weights the buckets draw from
CombNameOrder == <<"A", "B", "C">>
CombNames == {CombNameOrder[i] : i \in 1..Len(CombNameOrder)}
CombWeights == {0, 1, 2}

\* weight_share values, in millionths; NoShare stands for None
ShareOne == 1000000
NoShare == -1
ShareChoices == {NoShare, 0, 1, 500000, ShareOne}

\* the tolerance of the share check, 1e-6, in millionths
ShareTol == 1

ShareRat(share) == Rat(share, ShareOne)

---------------------------------------------------------------------------
\* ensure_weights

EnsureWeightsUnclamped(personas, target_total) ==
    LET total == WeightSum(personas)
        n == Len(personas)
    IN  IF ~RPos(total)
        THEN [i \in 1..n |-> [personas[i] EXCEPT !.weight = RDiv(target_total, RInt(Max(n, 1)))]]
        ELSE IF ~RPos(target_total)
        THEN [i \in 1..n |-> [personas[i] EXCEPT !.weight = RZero]]
        ELSE LET scale == RDiv(target_total, total)
             IN  [i \in 1..n |->
                    [personas[i] EXCEPT !.weight = RMul(personas[i].weight, scale)]]

EnsureWeights(personas, target_total) ==
    LET total == WeightSum(personas)
        n == Len(personas)
    IN  IF ~RPos(total)
        THEN [i \in 1..n |-> [personas[i] EXCEPT !.weight = RDiv(target_total, RInt(Max(n, 1)))]]
        ELSE IF ~RPos(target_total)
        THEN [i \in 1..n |-> [personas[i] EXCEPT !.weight = RZero]]
        ELSE LET scale == RDiv(target_total, total)
             IN  [i \in 1..n |->
                    [personas[i] EXCEPT !.weight = RMul(RMax0(personas[i].weight), scale)]]

---------------------------------------------------------------------------
\* combine_persona_buckets

\* the position of name in the combined dict (insertion order), or 0
IndexOfName(combined, name) ==
    IF \E i \in 1..Len(combined) : combined[i].name = name
    THEN CHOOSE i \in 1..Len(combined) : combined[i].name = name
    ELSE 0

\* existing.weight += persona.weight: the object in the dict stays
MergedInto(existing, persona) ==
    [persona EXCEPT !.weight = RAdd(existing.weight, persona.weight)]
Merged(existing, persona) ==
    [existing EXCEPT !.weight = RAdd(existing.weight, persona.weight)]

\* _accumulate, for the personas persona_list[k..]
RECURSIVE Accumulate(_, _, _)
Accumulate(combined, persona_list, k) ==
    IF k > Len(persona_list) THEN combined
    ELSE LET persona == persona_list[k]
             at == IndexOfName(combined, persona.name)
         IN  Accumulate(
                 IF at # 0
                 THEN [combined EXCEPT ![at] = Merged(combined[at], persona)]
                 ELSE Append(combined, persona),
                 persona_list, k + 1)

\* specified_total = sum(share for _, share in specified), in millionths
RECURSIVE SpecifiedTotalTo(_, _)
SpecifiedTotalTo(buckets, n) ==
    IF n = 0 THEN 0
    ELSE (IF buckets[n].share # NoShare THEN buckets[n].share ELSE 0)
         + SpecifiedTotalTo(buckets, n - 1)

SpecifiedTotal(buckets) == SpecifiedTotalTo(buckets, Len(buckets))

\* `if specified_total > 1.0 + 1e-6: raise ValueError`
SharesExceedNever(total) == FALSE
SharesExceed(total) == total > ShareOne + ShareTol

\* the loop over the buckets with a share, for the buckets k..
RECURSIVE MergeSpecified(_, _, _)
MergeSpecified(combined, buckets, k) ==
    IF k > Len(buckets) THEN combined
    ELSE IF buckets[k].share = NoShare \/ buckets[k].personas = <<>>
    THEN MergeSpecified(combined, buckets, k + 1)
    ELSE MergeSpecified(
             Accumulate(combined,
                        EnsureWeights(buckets[k].personas, ShareRat(buckets[k].share)),
                        1),
             buckets, k + 1)

\* raw_total: the clamped weights of all buckets without a share
RECURSIVE RawTotalTo(_, _)
RawTotalTo(buckets, n) ==
    IF n = 0 THEN RZero
    ELSE RAdd(IF buckets[n].share = NoShare
              THEN WeightSum(buckets[n].personas) ELSE RZero,
              RawTotalTo(buckets, n - 1))

\* the loop over the buckets without a share, for the buckets k..
RECURSIVE MergeUnspecified(_, _, _, _, _)
MergeUnspecified(combined, buckets, remaining, raw_total, k) ==
    IF k > Len(buckets) THEN combined
    ELSE IF buckets[k].share # NoShare
    THEN MergeUnspecified(combined, buckets, remaining, raw_total, k + 1)
    ELSE LET bucket_weight == WeightSum(buckets[k].personas)
             share == IF RPos(bucket_weight)
                      THEN RMul(remaining, RDiv(bucket_weight, raw_total))
                      ELSE RZero
         IN  MergeUnspecified(
                 Accumulate(combined, EnsureWeights(buckets[k].personas, share), 1),
                 buckets, remaining, raw_total, k + 1)

\* the final pass: rescale the combined population to total weight 1
FinalRescale(final_personas) ==
    LET total_weight == WeightSum(final_personas)
    IN  IF ~RPos(total_weight) THEN final_personas
        ELSE [i \in 1..Len(final_personas) |->
                [final_personas[i] EXCEPT
                    !.weight = RMul(RMax0(@), RDiv(ROne, total_weight))]]

\* remaining = max(1.0 - specified_total, 0.0)
RemainingWhole(specified_total) == ROne
Remaining(specified_total) ==
    IF specified_total >= ShareOne THEN RZero
    ELSE Rat(ShareOne - specified_total, ShareOne)

\* `if remaining > 0 and raw_total > 0:`
UnspecifiedContributeRawOnly(remaining, raw_total) == RPos(raw_total)
UnspecifiedContribute(remaining, raw_total) == RPos(remaining) /\ RPos(raw_total)

\* `if unspecified:`
HasUnspecified(buckets) == \E k \in 1..Len(buckets) : buckets[k].share = NoShare

\* The call: what it raised or returned, and the combined dict it held
CombinePersonaBuckets(buckets) ==
    LET specified_total == SpecifiedTotal(buckets) IN
    IF SharesExceed(specified_total)
    THEN [status |-> "ValueError", personas |-> <<>>]
    ELSE LET afterSpecified == MergeSpecified(<<>>, buckets, 1)
             hasUnspecified == HasUnspecified(buckets)
             remaining == Remaining(specified_total)
             raw_total == RawTotalTo(buckets, Len(buckets))
             combined ==
                 IF hasUnspecified /\ UnspecifiedContribute(remaining, raw_total)
                 THEN MergeUnspecified(afterSpecified, buckets, remaining, raw_total, 1)
                 ELSE afterSpecified
         IN  [status |-> "ok", personas |-> FinalRescale(combined)]

CombPersonas == [name : CombNames, weight : {RInt(w) : w \in CombWeights}]

\* persona names are dict keys: only their equality matters, so the inputs
\* name their personas in order of first appearance ("A", then "B", ...)
NameIndex(name) == CHOOSE i \in 1..Len(CombNameOrder) : CombNameOrder[i] = name

FirstAppearanceOrder(flat) ==
    \A i \in 1..Len(flat) :
        \/ NameIndex(flat[i].name) = 1
        \/ \E j \in 1..(i - 1) : NameIndex(flat[j].name) >= NameIndex(flat[i].name) - 1

\* lists of exactly n personas
PersonaLists(n) == { flat \in [1..n -> CombPersonas] : FirstAppearanceOrder(flat) }

\* the ways of cutting n personas into nb consecutive buckets (empty ones
\* included)
BucketSizes(nb, n) == { sizes \in [1..nb -> 0..n] : SumTo(sizes, nb) = n }

\* the buckets that hold the personas of flat, cut as sizes says
CutBuckets(flat, sizes, shares) ==
    [k \in 1..Len(sizes) |->
        [personas |-> [i \in 1..sizes[k] |-> flat[SumTo(sizes, k - 1) + i]],
         share |-> shares[k]]]

InitCombine ==
    /\ c_pc = "call"
    /\ \E b \in 0..MaxBuckets, n \in 0..MaxCombPersonas :
         \E flat \in PersonaLists(n), sizes \in BucketSizes(b, n),
            shares \in [1..b -> ShareChoices] :
                c_buckets = CutBuckets(flat, sizes, shares)
    /\ c_out = <<>>
    /\ AllocIdle
    /\ EnsIdle
    /\ RakeIdle
    /\ ScoreIdle
    /\ SimIdle
    /\ AuxIdle

Combine ==
    /\ c_pc = "call"
    /\ c_out' = CombinePersonaBuckets(c_buckets)
    /\ c_pc' = "ret"
    /\ UNCHANGED <<c_buckets, allocVars, ensVars, rakeVars, scoreVars, simVars, auxVars>>

NextCombine == Combine

SpecCombine == InitCombine /\ [][NextCombine]_vars

\* _assemble_panel after the call: `if not personas: raise RuntimeError`
NoPersonasError(personas) == personas = <<>>

---------------------------------------------------------------------------
\* ensure_weights called on its own, and applied again to its result

MaxEnsPersonas == 3

\* weights (a PersonaSpec is validated on construction only, so a negative
\* weight can be assigned) and target totals (any float)
EnsWeights == {-1, 0, 1, 2}
EnsTargets == {RInt(-1), RZero, Rat(1, 2), ROne, RInt(2)}

EnsPersonas(n) ==
    { [i \in 1..n |-> [name |-> "persona", weight |-> RInt(ws[i])]] :
        ws \in [1..n -> EnsWeights] }

InitEnsure ==
    /\ e_pc = "call"
    /\ \E n \in 0..MaxEnsPersonas : e_personas \in EnsPersonas(n)
    /\ e_target \in EnsTargets
    /\ e_once = <<>>
    /\ e_twice = <<>>
    /\ AllocIdle
    /\ CombIdle
    /\ RakeIdle
    /\ ScoreIdle
    /\ SimIdle
    /\ AuxIdle

EnsureOnce ==
    /\ e_pc = "call"
    /\ e_once' = EnsureWeights(e_personas, e_target)
    /\ e_pc' = "once"
    /\ UNCHANGED <<e_personas, e_target, e_twice,
                   allocVars, combVars, rakeVars, scoreVars, simVars, auxVars>>

EnsureAgain ==
    /\ e_pc = "once"
    /\ e_twice' = EnsureWeights(e_once, e_target)
    /\ e_pc' = "twice"
    /\ UNCHANGED <<e_personas, e_target, e_once,
                   allocVars, combVars, rakeVars, scoreVars, simVars, auxVars>>

NextEnsure == EnsureOnce \/ EnsureAgain

SpecEnsure == InitEnsure /\ [][NextEnsure]_vars

---------------------------------------------------------------------------
\* rake_personas: bounds and sample values

MaxRakePersonas == 2
MaxRakeIterations == 2

\* the persona fields the marginals address, and the values a persona has
\* for them; NoCategory stands for what _category_value maps to None (an
\* unset or blank field, a list, a field PersonaSpec does not have)
RakeFields == <<"age", "gender">>
NoCategory == ""
FieldValues == <<{"18-24", "25-44", NoCategory}, {"f", NoCategory}>>
RakeWeights == {0, 2, 3}

\* the categories a marginal can name, in a fixed order for the sums
RakeCategories == <<"18-24", "25-44", "45-64", "f", "m">>

\* sample marginals per field: category -> target share
FieldTargets ==
    << { ("18-24" :> Rat(1, 5) @@ "25-44" :> Rat(4, 5) @@ "45-64" :> RZero),
         ("18-24" :> Rat(1, 2) @@ "45-64" :> Rat(1, 2)),
         ("18-24" :> ROne),
         ("45-64" :> ROne) },
       { ("f" :> ROne),
         ("f" :> Rat(1, 2) @@ "m" :> Rat(1, 2)) } >>

RakePersonas ==
    [cats : { <<a, g>> : a \in FieldValues[1], g \in FieldValues[2] },
     weight : { RInt(w) : w \in RakeWeights }]

\* one entry of marginals.items()
FieldEntries(f) == { [field |-> f, targets |-> t] : t \in FieldTargets[f] }

\* marginals: a dict, iterated in insertion order; each field at most once
RakeMarginals ==
    {<<>>}
    \cup UNION { { <<e>> : e \in FieldEntries(f) } : f \in 1..Len(RakeFields) }
    \cup UNION { { <<e1, e2>> : e1 \in FieldEntries(fs[1]), e2 \in FieldEntries(fs[2]) } :
                 fs \in { gs \in (1..Len(RakeFields)) \X (1..Len(RakeFields)) : gs[1] # gs[2] } }

\* RakingConfig: enabled, mode, iterations (ge=1)
RakeConfigs ==
    { [enabled |-> FALSE, mode |-> "lenient", iterations |-> 1] }
    \cup [enabled : {TRUE}, mode : {"lenient", "strict"}, iterations : 1..MaxRakeIterations]

---------------------------------------------------------------------------
\* rake_personas

\* _category_value(persona, field)
CategoryValue(persona, field) == persona.cats[field]

NormalizeWeightsRaw(weights) == weights

\* total = sum(max(p.weight, 0.0) ...) or 1.0; p.weight = max(p.weight, 0.0) / total
NormalizeWeights(weights) ==
    LET n == Len(weights)
        sum == RSumTo([i \in 1..n |-> RMax0(weights[i])], n)
        total == IF sum = RZero THEN ROne ELSE sum
    IN  [i \in 1..n |-> RDiv(RMax0(weights[i]), total)]


\* current_totals[category]
CurrentTotal(personas, weights, field, category) ==
    RSumTo([i \in 1..Len(personas) |->
               IF CategoryValue(personas[i], field) = category
               THEN weights[i] ELSE RZero],
           Len(personas))

\* the keys of current_totals
ObservedCats(personas, field) ==
    { CategoryValue(personas[i], field) : i \in 1..Len(personas) } \ {NoCategory}

FieldTotal(personas, weights, field) ==
    RSumTo([i \in 1..Len(personas) |->
               IF CategoryValue(personas[i], field) # NoCategory
               THEN weights[i] ELSE RZero],
           Len(personas))

\* present_cats = {cat for cat, weight in current_totals.items() if weight > 0}
PresentCats(personas, weights, field) ==
    { cat \in ObservedCats(personas, field) :
        RPos(CurrentTotal(personas, weights, field, cat)) }

\* buckets.get(cat, 0.0)
TargetOf(buckets, cat) == IF cat \in DOMAIN buckets THEN buckets[cat] ELSE RZero

\* missing_required
MissingRequired(buckets, present_cats) ==
    { cat \in DOMAIN buckets : RPos(buckets[cat]) /\ cat \notin present_cats }

\* target_sum = sum(buckets.get(cat, 0.0) for cat in present_cats)
TargetSum(buckets, present_cats) ==
    RSumTo([j \in 1..Len(RakeCategories) |->
               IF RakeCategories[j] \in present_cats
               THEN TargetOf(buckets, RakeCategories[j]) ELSE RZero],
           Len(RakeCategories))

\* adjustments[cat] when current_share > 0
AdjustmentNoShare(target_share, current_share) == target_share
Adjustment(target_share, current_share) == RDiv(target_share, current_share)

\* adjustments: per present category
Adjustments(personas, weights, field, buckets, mode, present_cats) ==
    LET target_sum == TargetSum(buckets, present_cats)
        field_total == FieldTotal(personas, weights, field)
    IN  [cat \in present_cats |->
            LET target_share == RDiv(TargetOf(buckets, cat), target_sum)
                current_share == RDiv(CurrentTotal(personas, weights, field, cat),
                                      field_total)
            IN  IF ~RPos(current_share)
                THEN [raise |-> mode = "strict" /\ RPos(target_share), factor |-> ROne]
                ELSE [raise |-> FALSE,
                      factor |-> Adjustment(target_share, current_share)]]

\* One pass of the inner loop, for the entry (field, buckets) of targets:
\* "skip" (continue), "raise" (ValueError) or "adjust" with the factor each
\* persona's weight was multiplied by and the renormalized weights
RakeFieldPass(personas, weights, entry, mode) ==
    LET field == entry.field
        buckets == entry.targets
        present_cats == PresentCats(personas, weights, field)
        skip == [kind |-> "skip", weights |-> weights, factors |-> <<>>]
        raise == [kind |-> "raise", weights |-> weights, factors |-> <<>>]
    IN  IF ~RPos(FieldTotal(personas, weights, field)) THEN skip
        ELSE IF present_cats = {} THEN skip
        ELSE IF MissingRequired(buckets, present_cats) # {} /\ mode = "strict" THEN raise
        ELSE IF ~RPos(TargetSum(buckets, present_cats)) THEN skip
        ELSE LET adjustments ==
                     Adjustments(personas, weights, field, buckets, mode, present_cats)
                 factors ==
                     [i \in 1..Len(personas) |->
                         LET category == CategoryValue(personas[i], field)
                         IN  IF category = NoCategory THEN ROne
                             ELSE IF category \in present_cats
                             THEN adjustments[category].factor
                             ELSE ROne]
             IN  IF \E cat \in present_cats : adjustments[cat].raise THEN raise
                 ELSE [kind |-> "adjust",
                       weights |-> NormalizeWeights([i \in 1..Len(personas) |->
                                                        RMul(weights[i], factors[i])]),
                       factors |-> factors]

InputWeights(in) == [i \in 1..Len(in.personas) |-> in.personas[i].weight]

\* the caller passes a non-empty population (_assemble_panel raises before
\* raking when no persona is left)
InitRake ==
    /\ r_pc = "call"
    /\ \E n \in 1..MaxRakePersonas :
         r_in \in [personas : [1..n -> RakePersonas],
                   marginals : RakeMarginals,
                   config : RakeConfigs]
    /\ r_weights = InputWeights(r_in)
    /\ r_iter = 0
    /\ r_field = 0
    /\ r_mult = <<>>
    /\ AllocIdle
    /\ CombIdle
    /\ EnsIdle
    /\ ScoreIdle
    /\ SimIdle
    /\ AuxIdle

\* `if not marginals or not config.enabled`: normalize and return
RakeDisabled ==
    /\ r_pc = "call"
    /\ r_in.marginals = <<>> \/ ~r_in.config.enabled
    /\ r_weights' = NormalizeWeights(r_weights)
    /\ r_pc' = "ret"
    /\ UNCHANGED <<r_in, r_iter, r_field, r_mult,
                   allocVars, combVars, ensVars, scoreVars, simVars, auxVars>>

\* normalize the starting weights and enter the loops
RakeNormalize ==
    /\ r_pc = "call"
    /\ ~(r_in.marginals = <<>> \/ ~r_in.config.enabled)
    /\ r_weights' = NormalizeWeights(r_weights)
    /\ r_pc' = "loop"
    /\ r_iter' = 1
    /\ r_field' = 1
    /\ r_mult' = <<>>
    /\ UNCHANGED <<r_in, allocVars, combVars, ensVars, scoreVars, simVars, auxVars>>

\* the loop position after the pass at (r_iter, r_field)
RakeAdvance ==
    IF r_field < Len(r_in.marginals)
    THEN r_iter' = r_iter /\ r_field' = r_field + 1
    ELSE r_iter' = r_iter + 1 /\ r_field' = 1

RakeInLoop == r_pc = "loop" /\ r_iter <= r_in.config.iterations

RakePass ==
    RakeFieldPass(r_in.personas, r_weights, r_in.marginals[r_field], r_in.config.mode)

RakeFieldSkip ==
    /\ RakeInLoop
    /\ RakePass.kind = "skip"
    /\ r_mult' = <<>>
    /\ RakeAdvance
    /\ UNCHANGED <<r_pc, r_in, r_weights,
                   allocVars, combVars, ensVars, scoreVars, simVars, auxVars>>

RakeFieldRaise ==
    /\ RakeInLoop
    /\ RakePass.kind = "raise"
    /\ r_pc' = "raised"
    /\ r_mult' = <<>>
    /\ UNCHANGED <<r_in, r_weights, r_iter, r_field,
                   allocVars, combVars, ensVars, scoreVars, simVars, auxVars>>

RakeFieldAdjust ==
    /\ RakeInLoop
    /\ RakePass.kind = "adjust"
    /\ r_weights' = RakePass.weights
    /\ r_mult' = [field |-> r_in.marginals[r_field].field, factors |-> RakePass.factors,
                  before |-> r_weights]
    /\ RakeAdvance
    /\ UNCHANGED <<r_pc, r_in, allocVars, combVars, ensVars, scoreVars, simVars, auxVars>>

\* after all iterations: renormalize once more and return
RakeReturn ==
    /\ r_pc = "loop" /\ r_iter > r_in.config.iterations
    /\ r_weights' = NormalizeWeights(r_weights)
    /\ r_pc' = "ret"
    /\ UNCHANGED <<r_in, r_iter, r_field, r_mult,
                   allocVars, combVars, ensVars, scoreVars, simVars, auxVars>>

NextRake ==
    \/ RakeDisabled
    \/ RakeNormalize
    \/ RakeFieldSkip
    \/ RakeFieldRaise
    \/ RakeFieldAdjust
    \/ RakeReturn

SpecRake == InitRake /\ [][NextRake]_vars

---------------------------------------------------------------------------
\* SemanticSimilarityRater.score_text: bounds and sample values

MaxAnchorSets == 2
MaxRatings == 2

\* embeddings: vectors of integer norm, the zero vector among them, so that
\* np.linalg.norm is exact
Embeddings == { <<0, 0>>, <<1, 0>>, <<0, 1>>, <<-1, 0>>, <<2, 0>> }

\* the epsilon of the rater (its default) and the floor of the denominator
Epsilon == Rat(1, 1000000)
DenomFloor == Rat(1, 100000000)

\* the banks load_anchor_bank accepts: at least one anchor set, all sets
\* with the same rating keys 1..n; keys is the key order of the first set's
\* mapping, sets holds per set the embeddings of its anchors sorted by rating
AnchorBanks ==
    UNION { UNION { [keys : Perms(n), sets : [1..m -> [1..n -> Embeddings]]] :
                    m \in 1..MaxAnchorSets } :
            n \in 1..MaxRatings }

---------------------------------------------------------------------------
\* SemanticSimilarityRater

\* ratings(): list(self.bank.anchor_sets[0].anchors.keys())
RaterRatings(bank) == bank.keys

Dot(u, v) == SumTo([i \in 1..Len(u) |-> u[i] * v[i]], Len(u))

\* np.linalg.norm
NormOf(v) == CHOOSE r \in 0..Dot(v, v) : r * r = Dot(v, v)

\* _cosine_similarity(vec, mat)
CosineSimilarity(vec, mat) ==
    LET vec_norm == NormOf(vec) IN
    IF vec_norm = 0 THEN [i \in 1..Len(mat) |-> RZero]
    ELSE [i \in 1..Len(mat) |->
            \* np.clip(..., a_min=1e-8): a product of integer norms is
            \* below the floor only when it is 0
            LET product == vec_norm * NormOf(mat[i])
                denom == IF product = 0 THEN DenomFloor ELSE RInt(product)
            IN  RDiv(RInt(Dot(mat[i], vec)), denom)]

\* np.maximum(sims, 0.0)
FloorSimsNone(sims) == sims
FloorSims(sims) == [i \in 1..Len(sims) |-> RMax0(sims[i])]

\* x / y as numpy divides, for a divisor of either sign
Quotient(x, y) ==
    IF y[1] < 0 THEN RDiv(<<-x[1], x[2]>>, <<-y[1], y[2]>>) ELSE RDiv(x, y)

\* the pmf of one anchor set
SetPmf(vec, mat) ==
    LET sims == [i \in 1..Len(mat) |->
                    RAdd(FloorSims(CosineSimilarity(vec, mat))[i], Epsilon)]
        total == RSumTo(sims, Len(sims))
    IN  [i \in 1..Len(sims) |-> Quotient(sims[i], total)]

\* score_text, for the embedding text_vec of the text
ScoreTextPmf(bank, text_vec) ==
    LET m == Len(bank.sets)
        n == Len(bank.sets[1])
        per_set_pmf == [j \in 1..m |-> SetPmf(text_vec, bank.sets[j])]
        pmf == [i \in 1..n |->
                   RDiv(RSumTo([j \in 1..m |-> per_set_pmf[j][i]], m), RInt(m))]
        total == RSumTo(pmf, n)
    IN  [i \in 1..n |-> Quotient(pmf[i], total)]

InitScore ==
    /\ k_pc = "call"
    /\ k_bank \in AnchorBanks
    /\ k_text \in Embeddings
    /\ k_pmf = <<>>
    /\ AllocIdle
    /\ CombIdle
    /\ EnsIdle
    /\ RakeIdle
    /\ SimIdle
    /\ AuxIdle

ScoreTextCall ==
    /\ k_pc = "call"
    /\ k_pmf' = ScoreTextPmf(k_bank, k_text)
    /\ k_pc' = "ret"
    /\ UNCHANGED <<k_bank, k_text, allocVars, combVars, ensVars, rakeVars, simVars, auxVars>>

NextScore == ScoreTextCall

SpecScore == InitScore /\ [][NextScore]_vars

---------------------------------------------------------------------------
\* likert_metrics: bounds and inputs

MaxScale == 3

\* rating values a scale may hold (anchor keys are any integers)
RatingValues == {1, 2, 3, 5}

\* the pmf is given in units of 1/LikDen
LikDen == 4

\* rating lists of n distinct values, in any order
RatingLists(n) ==
    { r \in [1..n -> RatingValues] : \A i, j \in 1..n : i # j => r[i] # r[j] }

\* the pmfs over n ratings: non-negative masses summing to 1
LikPmfs(n) == { p \in [1..n -> 0..LikDen] : SumTo(p, n) = LikDen }

---------------------------------------------------------------------------
\* likert_metrics

\* max(rating_list)
MaxRating(rating_list) ==
    CHOOSE m \in { rating_list[i] : i \in 1..Len(rating_list) } :
        \A i \in 1..Len(rating_list) : rating_list[i] <= m

\* r >= max(rating_list) - 1
InTop2(r, rating_list) == r >= MaxRating(rating_list) - 1

\* likert_metrics(pmf, ratings): (mean, top2)
LikertMetrics(pmf, ratings) ==
    LET n == Len(ratings) IN
    [mean |-> SumTo([i \in 1..n |-> pmf[i] * ratings[i]], n),
     top2 |-> SumTo([i \in 1..n |-> IF InTop2(ratings[i], ratings) THEN pmf[i] ELSE 0], n)]

likOthers == <<coreVars, aliasVars, cacheVars, dbVars, libVars>>

InitLikert ==
    /\ l_pc = "call"
    /\ \E n \in 1..MaxScale :
         /\ l_ratings \in RatingLists(n)
         /\ l_pmf \in LikPmfs(n)
    /\ l_out = <<>>
    /\ CoreIdle
    /\ AliasIdle
    /\ CacheIdle
    /\ DbIdle
    /\ LibIdle

LikertCall ==
    /\ l_pc = "call"
    /\ l_out' = LikertMetrics(l_pmf, l_ratings)
    /\ l_pc' = "ret"
    /\ UNCHANGED <<l_ratings, l_pmf, likOthers>>

NextLikert == LikertCall

SpecLikert == InitLikert /\ [][NextLikert]_vars

---------------------------------------------------------------------------
\* Object identity: the PersonaSpec objects a caller passes to
\* combine_persona_buckets or rake_personas, the copies the call makes and
\* the objects it returns.  An object is an index into al_heap; the list
\* held by its list-valued field is an index into al_lists.

MaxObjects == 2
MaxRefs == 3
MaxAliasBuckets == 2

AliasNames == {"A", "B"}
AliasWeights == {0, 1, 2}
AliasShares == {NoShare, 500000, ShareOne}

\* the value written by a caller that mutates a returned persona, and the
\* item it appends to the persona's list
MutatedWeight == RInt(9)
MutatedItem == "x"

\* the caller's objects: object i holds list i, whose content tells the
\* objects apart
AliasItems == <<"h1", "h2", "h3">>
AliasLists(n) == [i \in 1..n |-> <<AliasItems[i]>>]
AliasHeaps(n) ==
    [1..n -> [name : AliasNames, weight : { RInt(w) : w \in AliasWeights }]]

\* model_copy(deep=True): the list of a list-valued field is copied into a
\* fresh list object
CopiedListShared(list, fresh) == list
CopiedList(list, fresh) == fresh

\* [p.model_copy(deep=True) for p in personas]: heap and lists with one
\* copy per reference appended, copy p at Len(heap) + p
WithCopies(heap, lists, refs) ==
    [heap |-> heap \o [p \in 1..Len(refs) |->
                          [heap[refs[p]] EXCEPT
                              !.habits = CopiedList(@, Len(lists) + p)]],
     lists |-> lists \o [p \in 1..Len(refs) |-> lists[heap[refs[p]].habits]]]

\* p.weight = ... for the objects objs[i], with the weights of values[i]
WriteWeights(heap, objs, values) ==
    [j \in 1..Len(heap) |->
        IF \E i \in 1..Len(objs) : objs[i] = j
        THEN [heap[j] EXCEPT
                 !.weight = values[CHOOSE i \in 1..Len(objs) : objs[i] = j].weight]
        ELSE heap[j]]

\* the persona records the weight arithmetic works on, each with the
\* object it is
AsPersonas(heap, objs) ==
    [i \in 1..Len(objs) |->
        [name |-> heap[objs[i]].name, weight |-> heap[objs[i]].weight, obj |-> objs[i]]]

\* combine_persona_buckets on objects: the buckets hold copies, the
\* combined dict holds the first copy of each name, the weights are
\* written to the objects of the dict, which are returned.  (Copies are
\* made here for skipped buckets too; nothing refers to them.)
CombineObjects(heap, lists, refs, sizes, shares) ==
    LET n == Len(heap)
        copied == WithCopies(heap, lists, refs)
        copies == [p \in 1..Len(refs) |-> n + p]
        buckets == CutBuckets(AsPersonas(copied.heap, copies), sizes, shares)
        res == CombinePersonaBuckets(buckets)
        out == [o \in 1..Len(res.personas) |-> res.personas[o].obj]
    IN  IF res.status # "ok"
        THEN [status |-> res.status, heap |-> heap, lists |-> lists, out |-> <<>>]
        ELSE [status |-> "ok",
              heap |-> WriteWeights(copied.heap, out, res.personas),
              lists |-> copied.lists,
              out |-> out]

\* rake_personas on objects, without marginals: personas_list holds
\* copies, their weights are normalized and they are returned (the raking
\* loops write to the same objects)
RakeObjects(heap, lists, refs) ==
    LET n == Len(heap)
        copied == WithCopies(heap, lists, refs)
        copies == [p \in 1..Len(refs) |-> n + p]
        weights == NormalizeWeights([p \in 1..Len(refs) |-> copied.heap[copies[p]].weight])
    IN  [status |-> "ok",
         heap |-> WriteWeights(copied.heap, copies,
                               [p \in 1..Len(refs) |-> [weight |-> weights[p]]]),
         lists |-> copied.lists,
         out |-> copies]

aliasOthers == <<coreVars, likVars, cacheVars, dbVars, libVars>>

InitAlias ==
    /\ al_pc = "call"
    /\ \E n \in 1..MaxObjects, m \in 1..MaxRefs, b \in 1..MaxAliasBuckets :
         \E heap \in AliasHeaps(n), refs \in [1..m -> 1..n],
            sizes \in BucketSizes(b, m), shares \in [1..b -> AliasShares],
            call \in {"combine_persona_buckets", "rake_personas"} :
              /\ call = "rake_personas" => b = 1
              /\ al_heap = [i \in 1..n |->
                               [name |-> heap[i].name, weight |-> heap[i].weight,
                                habits |-> i]]
              /\ al_in = [call |-> call, refs |-> refs, sizes |-> sizes, shares |-> shares,
                          heap |-> [i \in 1..n |->
                                       [name |-> heap[i].name, weight |-> heap[i].weight,
                                        habits |-> i]],
                          lists |-> AliasLists(n)]
    /\ al_lists = AliasLists(Len(al_heap))
    /\ al_out = <<>>
    /\ CoreIdle
    /\ LikIdle
    /\ CacheIdle
    /\ DbIdle
    /\ LibIdle

\* the call, as a whole
AliasCall ==
    /\ al_pc = "call"
    /\ LET res == IF al_in.call = "rake_personas"
                  THEN RakeObjects(al_heap, al_lists, al_in.refs)
                  ELSE CombineObjects(al_heap, al_lists, al_in.refs,
                                      al_in.sizes, al_in.shares)
       IN  /\ al_heap' = res.heap
           /\ al_lists' = res.lists
           /\ al_out' = res.out
           /\ al_pc' = IF res.status = "ok" THEN "returned" ELSE "raised"
    /\ UNCHANGED <<al_in, aliasOthers>>

\* the caller mutates a returned persona: assigns its weight and appends
\* to its list (as apply_panel_context does after the call)
AliasMutate ==
    /\ al_pc = "returned"
    /\ \E o \in 1..Len(al_out) :
         /\ al_heap' = [al_heap EXCEPT ![al_out[o]].weight = MutatedWeight]
         /\ al_lists' = [al_lists EXCEPT
                            ![al_heap[al_out[o]].habits] = Append(@, MutatedItem)]
    /\ al_pc' = "mutated"
    /\ UNCHANGED <<al_in, al_out, aliasOthers>>

NextAlias ==
    \/ AliasCall
    \/ AliasMutate

SpecAlias == InitAlias /\ [][NextAlias]_vars

---------------------------------------------------------------------------
\* The response cache.  Strings are sequences of characters; NL is "\n".

MaxCacheAdds == 2
MaxPromptLen == 2
MaxNamespaceLen == 1

NL == "\n"
CacheChars == {"a", NL}
CacheResponses == {"r1", "r2"}

StringsUpTo(n) == UNION { [1..k -> CacheChars] : k \in 0..n }
CachePrompts == StringsUpTo(MaxPromptLen)
CacheNamespaces == StringsUpTo(MaxNamespaceLen)

\* _get_key: the digest of the payload.  sha256 is taken to be free of
\* collisions, so the key stands for the payload it was computed from.
GetKey(prompt, namespace) ==
    IF namespace # <<>> THEN namespace \o <<NL>> \o prompt ELSE prompt

\* _CACHE.get(key)
CacheGet(cache, key) == IF key \in DOMAIN cache THEN Some(cache[key]) ELSE None

\* the pair as the caller names it
CachePair(prompt, namespace) == <<namespace, prompt>>

cacheOthers == <<coreVars, likVars, aliasVars, dbVars, libVars>>

InitCache ==
    /\ ch_pc = "run"
    /\ ch_cache = <<>>
    /\ ch_added = <<>>
    /\ ch_count = 0
    /\ ch_last = <<>>
    /\ CoreIdle
    /\ LikIdle
    /\ AliasIdle
    /\ DbIdle
    /\ LibIdle

AddToCache(prompt, response, namespace) ==
    /\ ch_pc = "run"
    /\ ch_count < MaxCacheAdds
    /\ ch_cache' = (GetKey(prompt, namespace) :> response) @@ ch_cache
    /\ ch_added' = (CachePair(prompt, namespace) :> response) @@ ch_added
    /\ ch_count' = ch_count + 1
    /\ ch_last' = [op |-> "add_to_cache", prompt |-> prompt, namespace |-> namespace,
                   value |-> None]
    /\ UNCHANGED <<ch_pc, cacheOthers>>

GetFromCache(prompt, namespace) ==
    /\ ch_pc = "run"
    /\ ch_last' = [op |-> "get_from_cache", prompt |-> prompt, namespace |-> namespace,
                   value |-> CacheGet(ch_cache, GetKey(prompt, namespace))]
    /\ UNCHANGED <<ch_pc, ch_cache, ch_added, ch_count, cacheOthers>>

NextCache ==
    \/ \E prompt \in CachePrompts, namespace \in CacheNamespaces,
          response \in CacheResponses : AddToCache(prompt, response, namespace)
    \/ \E prompt \in CachePrompts, namespace \in CacheNamespaces :
          GetFromCache(prompt, namespace)

SpecCache == InitCache /\ [][NextCache]_vars

---------------------------------------------------------------------------
\* The run store.  save_run draws a fresh uuid4 (taken to be unique): the
\* ids are 1, 2, ... in the order of issue; 0 is an id never issued.

MaxRuns == 2

\* request_data / response_data: JSON documents (the API passes
\* model_dump(mode="json"))
EmptyDoc == <<>>
JsonDocs == {EmptyDoc, [test |-> TRUE], [index |-> 1]}

RunIds == 0..MaxRuns

\* json.dumps / json.loads on a JSON document: the text, never empty,
\* and the document it decodes to
JsonDumps(doc) == <<"json", doc>>
JsonLoads(text) == text[2]

\* session.query(RunRecord).filter_by(id=run_id).first()
FindRecord(rows, run_id) == IF run_id \in DOMAIN rows THEN Some(rows[run_id]) ELSE None

\* RunRecord.to_full_dict (the fields the callers read)
ToFullDict(run_id, record) ==
    [id |-> run_id,
     request |-> IF record.request_json # <<>>
                 THEN Some(JsonLoads(record.request_json)) ELSE None,
     response |-> IF record.response_json # <<>>
                  THEN Some(JsonLoads(record.response_json)) ELSE None]

\* get_run(run_id)
GetRunResult(rows, run_id) ==
    LET record == FindRecord(rows, run_id)
    IN  IF record = None THEN None ELSE Some(ToFullDict(run_id, record[1]))

\* session.delete(record); session.commit()
RowsAfterDeleteKept(rows, run_id) == rows
RowsAfterDelete(rows, run_id) == [id \in DOMAIN rows \ {run_id} |-> rows[id]]

dbOthers == <<coreVars, likVars, aliasVars, cacheVars, libVars>>

InitDb ==
    /\ db_pc = "run"
    /\ db_rows = <<>>
    /\ db_issued = 0
    /\ db_saved = <<>>
    /\ db_gone = {}
    /\ db_last = <<>>
    /\ CoreIdle
    /\ LikIdle
    /\ AliasIdle
    /\ CacheIdle
    /\ LibIdle

SaveRun(request_data, response_data) ==
    /\ db_pc = "run"
    /\ db_issued < MaxRuns
    /\ LET run_id == db_issued + 1
           record == [request_json |-> JsonDumps(request_data),
                      response_json |-> JsonDumps(response_data)]
       IN  /\ db_rows' = (run_id :> record) @@ db_rows
           /\ db_saved' = (run_id :> [request |-> request_data,
                                      response |-> response_data]) @@ db_saved
           /\ db_issued' = run_id
           /\ db_last' = [op |-> "save_run", run_id |-> run_id, value |-> Some(run_id),
                          existed |-> FALSE]
    /\ UNCHANGED <<db_pc, db_gone, dbOthers>>

GetRun(run_id) ==
    /\ db_pc = "run"
    /\ db_last' = [op |-> "get_run", run_id |-> run_id,
                   value |-> GetRunResult(db_rows, run_id),
                   existed |-> run_id \in DOMAIN db_saved /\ run_id \notin db_gone]
    /\ UNCHANGED <<db_pc, db_rows, db_issued, db_saved, db_gone, dbOthers>>

DeleteRun(run_id) ==
    /\ db_pc = "run"
    /\ LET record == FindRecord(db_rows, run_id)
           found == record # None
       IN  /\ db_rows' = IF found THEN RowsAfterDelete(db_rows, run_id) ELSE db_rows
           /\ db_gone' = IF found THEN db_gone \cup {run_id} ELSE db_gone
           /\ db_last' = [op |-> "delete_run", run_id |-> run_id, value |-> Some(found),
                          existed |-> run_id \in DOMAIN db_saved /\ run_id \notin db_gone]
    /\ UNCHANGED <<db_pc, db_issued, db_saved, dbOthers>>

NextDb ==
    \/ \E request_data \in JsonDocs, response_data \in JsonDocs :
          SaveRun(request_data, response_data)
    \/ \E run_id \in RunIds : GetRun(run_id)
    \/ \E run_id \in RunIds : DeleteRun(run_id)

SpecDb == InitDb /\ [][NextDb]_vars

---------------------------------------------------------------------------
\* PersonaLibrary.  The directory holds loadable group files; the content
\* of a group is a version number, so that a stale copy shows.

MaxGroupVersion == 2

GroupNames == {"g1", "g2"}
Directories ==
    UNION { [names -> 1..MaxGroupVersion] : names \in SUBSET GroupNames }

\* load_library(directory)
LoadLibrary(disk) == disk

\* get_group: `except KeyError` on self._groups[name]
NeedsReloadAlways(groups, name) == TRUE
NeedsReload(groups, name) == name \notin DOMAIN groups

\* the KeyError of get_group: "Persona group '{name}' not found in ..."
NotFoundError(name) == [kind |-> "KeyError", group |-> name]

\* get_group(name) on a library holding groups, with disk on disk: the
\* groups held afterwards, the reloads made and the outcome
GetGroupCall(groups, disk, name) ==
    IF ~NeedsReload(groups, name)
    THEN [groups |-> groups, reloads |-> 0, value |-> Some(groups[name]), error |-> None]
    ELSE LET reloaded == LoadLibrary(disk)
         IN  IF name \in DOMAIN reloaded
             THEN [groups |-> reloaded, reloads |-> 1,
                   value |-> Some(reloaded[name]), error |-> None]
             ELSE [groups |-> reloaded, reloads |-> 1,
                   value |-> None, error |-> Some(NotFoundError(name))]

libOthers == <<coreVars, likVars, aliasVars, cacheVars, dbVars>>

\* PersonaLibrary(directory): __init__ reloads
InitLib ==
    /\ lb_pc = "run"
    /\ lb_disk \in Directories
    /\ lb_groups = LoadLibrary(lb_disk)
    /\ lb_last = <<>>
    /\ CoreIdle
    /\ LikIdle
    /\ AliasIdle
    /\ CacheIdle
    /\ DbIdle

\* the directory changes behind the library: files added, removed, edited
DiskChange ==
    /\ lb_pc = "run"
    /\ \E disk \in Directories : disk # lb_disk /\ lb_disk' = disk
    /\ UNCHANGED <<lb_pc, lb_groups, lb_last, libOthers>>

GetGroup(name) ==
    /\ lb_pc = "run"
    /\ LET res == GetGroupCall(lb_groups, lb_disk, name)
       IN  /\ lb_groups' = res.groups
           /\ lb_last' = [name |-> name, before |-> lb_groups, disk |-> lb_disk,
                          reloads |-> res.reloads, value |-> res.value,
                          error |-> res.error]
    /\ UNCHANGED <<lb_pc, lb_disk, libOthers>>

NextLib ==
    \/ DiskChange
    \/ \E name \in GroupNames : GetGroup(name)

SpecLib == InitLib /\ [][NextLib]_vars

---------------------------------------------------------------------------
\* run_simulation: bounds, sample values and program constants

MaxPersonas == 2
MaxSimDraws == 3
MaxProviders == 2
MaxConcurrency == 2
MaxQuestions == 2

\* options.seed values the runs draw from
SeedChoices == {0, 41}

\* the cap of the concurrency argument: min(settings.max_concurrency, 64)
ConcurrencyCeiling == 64

\* the distance of two personas' seed bases: persona_idx * 1_000_000
SeedStride == 1000000


\* the rating scale of the anchor bank, and the denominator of the pmfs
\* the stand-in rater produces
Ratings == <<1, 2>>
PmfDen == 4

---------------------------------------------------------------------------
\* run_simulation: the inputs of a run

\* draw_counts: one count >= 1 per persona (_allocate_draws), at most
\* MaxSimDraws together
RECURSIVE DrawCounts(_, _)
DrawCounts(np, total) ==
    IF np = 0 THEN {<<>>}
    ELSE UNION { { <<d>> \o rest : rest \in DrawCounts(np - 1, total - d) } :
                 d \in 1..(total - (np - 1)) }

\* the persona weights after panel assembly: distinct relative weights
SimWeights(np) == [k \in 1..np |-> k]

SimInputs ==
    UNION { { [draws |-> dc, weights |-> SimWeights(np), nprov |-> pr,
               max_concurrency |-> mc, nq |-> nq, seed |-> sd,
               include_respondents |-> ir] :
                dc \in DrawCounts(np, MaxSimDraws), pr \in 1..MaxProviders,
                mc \in 1..MaxConcurrency, nq \in 1..MaxQuestions,
                sd \in SeedChoices, ir \in BOOLEAN } :
            np \in 1..MaxPersonas }

NumPersonas(in) == Len(in.draws)

ProviderCountLastTakesRest(in, k, i) ==
    (in.draws[k] \div in.nprov) + (IF i = in.nprov THEN in.draws[k] % in.nprov ELSE 0)

\* _simulate_persona: count = draws_per_provider + (1 if i < remainder else 0)
\* for the provider at position i (1-based here)
ProviderCount(in, k, i) ==
    (in.draws[k] \div in.nprov)
        + (IF i - 1 < in.draws[k] % in.nprov THEN 1 ELSE 0)

SeedBaseShared(in, k) == in.seed

\* run_simulation: seed_base = options.seed + persona_idx * 1_000_000
SeedBase(in, k) == in.seed + (k - 1) * SeedStride

\* _simulate_persona: seed_offset of provider i's batch
RECURSIVE SeedOffset(_, _, _)
SeedOffset(in, k, i) ==
    IF i = 1 THEN SeedBase(in, k)
    ELSE SeedOffset(in, k, i - 1) + ProviderCount(in, k, i - 1)

\* the generate_batch calls of a question: one per persona and provider
\* with count > 0
Batches(in) ==
    { b \in (1..NumPersonas(in)) \X (1..in.nprov) : ProviderCount(in, b[1], b[2]) > 0 }

\* the run_single tasks of a question: <<persona, provider, idx + 1>>
Tasks(in) ==
    { t \in (1..NumPersonas(in)) \X (1..in.nprov) \X (1..MaxSimDraws) :
        t[3] <= ProviderCount(in, t[1], t[2]) }

BatchOf(t) == <<t[1], t[2]>>

\* generate_batch: concurrency=min(settings.max_concurrency, 64)
Concurrency(in) == Min(in.max_concurrency, ConcurrencyCeiling)

\* run_single: seed=seed_offset + idx
TaskSeed(in, t) == SeedOffset(in, t[1], t[2]) + (t[3] - 1)

\* the arguments of a generate_rationale call of task t for question q
\* (prompt block and temperature are the same for every call of a run)
CallArgs(in, q, t) ==
    [persona |-> t[1], provider |-> t[2], question |-> q, seed |-> TaskSeed(in, t)]

\* The provider, as a function of the call: the LLMResponse it returns
\* when it does not fail.  The rationale is identified by the call.
ProviderResponse(args) ==
    [rationale |-> <<args.question, args.persona, args.seed>>,
     provider |-> args.provider,
     seed |-> args.seed]

\* The rater, as a function of the text: a pmf over Ratings (stand-in for
\* score_text; different texts get different pmfs)
ScoreText(text) ==
    LET a == 1 + ((text[1] + text[2] + text[3]) % 3)
    IN  <<Rat(a, PmfDen), Rat(PmfDen - a, PmfDen)>>

---------------------------------------------------------------------------
\* generate_batch and run_single

\* results[idx] = res
ResultStoreArrival(results, x, res) ==
    LET free == CHOOSE i \in 1..Len(results) :
                    /\ results[i] = None
                    /\ \A j \in 1..(i - 1) : results[j] # None
    IN  [results EXCEPT ![free] = Some(res)]
ResultStore(results, x, res) == [results EXCEPT ![x] = Some(res)]

\* the nested try/except of run_single: a failed call is retried when it
\* was the first of its draw
RetryAlways(attempt) == TRUE
RetryAfter(attempt) == attempt < 2

\* the RuntimeError of run_single: "Failed to elicit rationale for persona
\* {persona.name} with {provider.provider_name}: ..."
ElicitErrorNoProvider(k, i) ==
    [kind |-> "RuntimeError", persona |-> k, provider |-> 0]
ElicitError(k, i) ==
    [kind |-> "RuntimeError", persona |-> k, provider |-> i]

\* ordered = [res for res in results if res is not None]
RECURSIVE Compact(_)
Compact(opts) ==
    IF opts = <<>> THEN <<>>
    ELSE (IF opts[1] = None THEN <<>> ELSE <<opts[1][1]>>)
         \o Compact(SubSeq(opts, 2, Len(opts)))

\* the state of the tasks of a question when its gathers are awaited
FreshPc(in) == [t \in Tasks(in) |-> "wait"]
FreshCalls(in) == [t \in Tasks(in) |-> <<>>]
FreshSem(in) == [b \in Batches(in) |-> Concurrency(in)]
FreshResults(in) ==
    [b \in Batches(in) |-> [x \in 1..ProviderCount(in, b[1], b[2]) |-> None]]
FreshGathered(in) == [k \in 1..NumPersonas(in) |-> None]

\* `async with semaphore:` entered, the first generate_rationale call made
Acquire(t) ==
    /\ s_pc[t] = "wait"
    /\ s_sem[BatchOf(t)] > 0
    /\ s_sem' = [s_sem EXCEPT ![BatchOf(t)] = @ - 1]
    /\ s_pc' = [s_pc EXCEPT ![t] = "calling"]
    /\ s_calls' = [s_calls EXCEPT ![t] =
                      <<[args |-> CallArgs(s_in, s_q, t), outcome |-> "pending"]>>]
    /\ UNCHANGED <<auxVars, allocVars, combVars, ensVars, rakeVars, scoreVars, s_in, s_phase, s_q, s_results, s_finished, s_gathered,
                   s_pqr, s_resp, s_aggs, s_error, s_response>>

\* the pending call of task t, marked with its outcome
Settle(calls, outcome) ==
    [calls EXCEPT ![Len(calls)].outcome = outcome]

\* a generate_rationale call returns: the result is stored and the
\* semaphore released
CallReturns(t) ==
    /\ s_pc[t] = "calling"
    /\ s_results' = [s_results EXCEPT ![BatchOf(t)] =
          ResultStore(@, t[3], ProviderResponse(s_calls[t][Len(s_calls[t])].args))]
    /\ s_calls' = [s_calls EXCEPT ![t] = Settle(@, "returned")]
    /\ s_sem' = [s_sem EXCEPT ![BatchOf(t)] = @ + 1]
    /\ s_pc' = [s_pc EXCEPT ![t] = "done"]
    /\ UNCHANGED <<auxVars, allocVars, combVars, ensVars, rakeVars, scoreVars, s_in, s_phase, s_q, s_finished, s_gathered,
                   s_pqr, s_resp, s_aggs, s_error, s_response>>

\* a generate_rationale call raises and is retried with the same arguments,
\* the semaphore still held
CallRaisesRetry(t) ==
    /\ s_pc[t] = "calling"
    /\ RetryAfter(Len(s_calls[t]))
    /\ s_calls' = [s_calls EXCEPT ![t] =
          Append(Settle(@, "raised"),
                 [args |-> CallArgs(s_in, s_q, t), outcome |-> "pending"])]
    /\ UNCHANGED <<auxVars, allocVars, combVars, ensVars, rakeVars, scoreVars, s_in, s_phase, s_q, s_pc, s_sem, s_results, s_finished,
                   s_gathered, s_pqr, s_resp, s_aggs, s_error, s_response>>

\* the retry raises too: run_single raises the RuntimeError, which the
\* gathers of generate_batch, _simulate_persona and run_simulation pass on
\* to run_simulation's caller (the first such error; the sibling tasks are
\* not cancelled)
CallRaisesFatal(t) ==
    /\ s_pc[t] = "calling"
    /\ ~RetryAfter(Len(s_calls[t]))
    /\ s_calls' = [s_calls EXCEPT ![t] = Settle(@, "raised")]
    /\ s_sem' = [s_sem EXCEPT ![BatchOf(t)] = @ + 1]
    /\ s_pc' = [s_pc EXCEPT ![t] = "failed"]
    /\ IF s_phase = "eliciting"
       THEN /\ s_phase' = "raised"
            /\ s_error' = Some(ElicitError(t[1], t[2]))
       ELSE UNCHANGED <<s_phase, s_error>>
    /\ UNCHANGED <<auxVars, allocVars, combVars, ensVars, rakeVars, scoreVars, s_in, s_q, s_results, s_finished, s_gathered,
                   s_pqr, s_resp, s_aggs, s_response>>

---------------------------------------------------------------------------
\* _simulate_persona, after its gather

\* the gather of generate_batch and of _simulate_persona: every draw of
\* the persona has stored its result
PersonaReady(k) == \A t \in Tasks(s_in) : t[1] = k => s_pc[t] = "done"

\* generate_batch's defensive guard: `if len(ordered) != n: raise`
BatchComplete(b) ==
    Len(Compact(s_results[b])) = ProviderCount(s_in, b[1], b[2])

\* all_results: the batches' ordered results, in provider order
RECURSIVE AllResults(_, _, _)
AllResults(results, k, i) ==
    IF i = 0 THEN <<>>
    ELSE AllResults(results, k, i - 1)
         \o (IF <<k, i>> \in DOMAIN results THEN Compact(results[<<k, i>>]) ELSE <<>>)

\* pmfs.mean(axis=0)
PmfMean(pmfs) ==
    [r \in 1..Len(Ratings) |->
        RDiv(RSumTo([j \in 1..Len(pmfs) |-> pmfs[j][r]], Len(pmfs)),
             RInt(Len(pmfs)))]

\* pmf @ rating_vector
ExpectedRating(pmf) ==
    RSumTo([r \in 1..Len(Ratings) |-> RMul(pmf[r], RInt(Ratings[r]))], Len(Ratings))

\* what _simulate_persona returns: (PersonaQuestionResult, pmfs, all_results)
PersonaTuple(in, q, k, all_results) ==
    LET cleaned == [j \in 1..Len(all_results) |-> all_results[j].rationale]
        pmfs    == [j \in 1..Len(cleaned) |-> ScoreText(cleaned[j])]
    IN  [result |-> [question |-> q,
                     rationales |-> cleaned,
                     distribution |-> [pmf |-> PmfMean(pmfs),
                                       sample_n |-> in.draws[k]]],
         pmfs |-> pmfs,
         responses |-> all_results]

\* gathered = await asyncio.gather(*persona_tasks): the results are listed
\* in the order of the tasks, not of their completion
GatherStoreArrival(gathered, k, tuple) ==
    LET free == CHOOSE i \in 1..Len(gathered) :
                    /\ gathered[i] = None
                    /\ \A j \in 1..(i - 1) : gathered[j] # None
    IN  [gathered EXCEPT ![free] = Some(tuple)]
GatherStore(gathered, k, tuple) == [gathered EXCEPT ![k] = Some(tuple)]

PersonaFinish(k) ==
    /\ s_phase = "eliciting"
    /\ \A i \in 1..Len(s_finished) : s_finished[i] # k
    /\ PersonaReady(k)
    /\ IF \A b \in Batches(s_in) : b[1] = k => BatchComplete(b)
       THEN /\ s_gathered' = GatherStore(s_gathered, k,
                   PersonaTuple(s_in, s_q, k, AllResults(s_results, k, s_in.nprov)))
            /\ s_finished' = Append(s_finished, k)
            /\ UNCHANGED <<s_phase, s_error>>
       ELSE /\ s_phase' = "raised"
            /\ s_error' = Some([kind |-> "RuntimeError", persona |-> 0, provider |-> 0])
            /\ UNCHANGED <<s_gathered, s_finished>>
    /\ UNCHANGED <<auxVars, allocVars, combVars, ensVars, rakeVars, scoreVars, s_in, s_q, s_pc, s_calls, s_sem, s_results,
                   s_pqr, s_resp, s_aggs, s_response>>

---------------------------------------------------------------------------
\* run_simulation, after its gather

\* the gather of the persona tasks: every persona task has completed
GatherReadyAny == Len(s_finished) >= 1
GatherReady == Len(s_finished) = NumPersonas(s_in)

\* weight_vector: the weights over their sum, uniform when the sum is 0
WeightVector(in) ==
    [k \in 1..NumPersonas(in) |->
        IF SeqSum(in.weights) = 0 THEN Rat(1, NumPersonas(in))
        ELSE Rat(in.weights[k], SeqSum(in.weights))]

\* persona_question_results[idx].append(result)
AppendResults(pqr, gathered) ==
    [idx \in 1..Len(pqr) |->
        IF idx <= Len(gathered) THEN Append(pqr[idx], gathered[idx].result)
        ELSE pqr[idx]]

\* respondent_tables[idx][resp_idx].answers.append(RespondentAnswer(...))
AppendAnswers(tables, gathered, q) ==
    [idx \in 1..Len(tables) |->
        [resp_idx \in 1..Len(tables[idx]) |->
            IF idx <= Len(gathered) /\ resp_idx <= Len(gathered[idx].responses)
            THEN Append(tables[idx][resp_idx],
                        [question |-> q,
                         provider |-> gathered[idx].responses[resp_idx].provider,
                         rationale |-> gathered[idx].result.rationales[resp_idx],
                         score_mean |-> ExpectedRating(gathered[idx].pmfs[resp_idx])])
            ELSE tables[idx][resp_idx]]]

\* np.concatenate(all_means)
RECURSIVE PooledMeans(_, _)
PooledMeans(gathered, n) ==
    IF n = 0 THEN <<>>
    ELSE PooledMeans(gathered, n - 1)
         \o [j \in 1..Len(gathered[n].pmfs) |-> ExpectedRating(gathered[n].pmfs[j])]

\* the loop over zip(weight_vector, persona_pmfs, draw_counts)
QuestionAggregate(in, gathered) ==
    LET n == Min(Len(gathered), NumPersonas(in))
    IN  [pmf |-> [r \in 1..Len(Ratings) |->
                    RSumTo([idx \in 1..n |->
                              RMul(WeightVector(in)[idx], PmfMean(gathered[idx].pmfs)[r])],
                           n)],
         sample_n |-> SumTo(in.draws, n),
         ci_input |-> PooledMeans(gathered, n)]

\* the SimulationResponse
Response(in, pqr, tables, aggs) ==
    [aggregate |-> aggs[1],
     personas |-> [idx \in 1..Len(pqr) |->
                     [distribution |-> pqr[idx][1].distribution,
                      question_results |-> pqr[idx],
                      respondents |-> IF in.include_respondents THEN tables[idx]
                                      ELSE <<>>]],
     questions |-> aggs]

\* the outputs of the question's part of the loop body after the gather
AggregateQuestion ==
    LET gathered == Compact(s_gathered) IN
    /\ s_pqr' = AppendResults(s_pqr, gathered)
    /\ s_resp' = IF s_in.include_respondents
                 THEN AppendAnswers(s_resp, gathered, s_q) ELSE s_resp
    /\ s_aggs' = Append(s_aggs, QuestionAggregate(s_in, gathered))

\* the gather of question s_q returns, its aggregate is computed, and the
\* persona tasks of the next question are created and awaited
AggregateAndContinue ==
    /\ s_phase = "eliciting"
    /\ GatherReady
    /\ s_q < s_in.nq
    /\ AggregateQuestion
    /\ s_q' = s_q + 1
    /\ s_pc' = FreshPc(s_in)
    /\ s_calls' = FreshCalls(s_in)
    /\ s_sem' = FreshSem(s_in)
    /\ s_results' = FreshResults(s_in)
    /\ s_finished' = <<>>
    /\ s_gathered' = FreshGathered(s_in)
    /\ UNCHANGED <<auxVars, allocVars, combVars, ensVars, rakeVars, scoreVars, s_in, s_phase, s_error, s_response>>

\* the gather of the last question returns, its aggregate is computed and
\* run_simulation returns the response
AggregateAndReturn ==
    /\ s_phase = "eliciting"
    /\ GatherReady
    /\ s_q = s_in.nq
    /\ AggregateQuestion
    /\ IF \A idx \in 1..Len(s_pqr') : s_pqr'[idx] # <<>>
       THEN /\ s_phase' = "returned"
            /\ s_response' = Some(Response(s_in, s_pqr', s_resp', s_aggs'))
            /\ UNCHANGED s_error
       ELSE \* first_result = question_results[0] raises IndexError
            /\ s_phase' = "raised"
            /\ s_error' = Some([kind |-> "IndexError", persona |-> 0, provider |-> 0])
            /\ UNCHANGED s_response
    /\ UNCHANGED <<auxVars, allocVars, combVars, ensVars, rakeVars, scoreVars, s_in, s_q, s_pc, s_calls, s_sem, s_results,
                   s_finished, s_gathered>>

\* run_simulation up to the gather of the first question
Init ==
    /\ s_in \in SimInputs
    /\ s_phase = "eliciting"
    /\ s_q = 1
    /\ s_pc = FreshPc(s_in)
    /\ s_calls = FreshCalls(s_in)
    /\ s_sem = FreshSem(s_in)
    /\ s_results = FreshResults(s_in)
    /\ s_finished = <<>>
    /\ s_gathered = FreshGathered(s_in)
    /\ s_pqr = [k \in 1..NumPersonas(s_in) |-> <<>>]
    /\ s_resp = IF s_in.include_respondents
                THEN [k \in 1..NumPersonas(s_in) |->
                        [j \in 1..s_in.draws[k] |-> <<>>]]
                ELSE <<>>
    /\ s_aggs = <<>>
    /\ s_error = None
    /\ s_response = None
    /\ AllocIdle
    /\ CombIdle
    /\ EnsIdle
    /\ RakeIdle
    /\ ScoreIdle
    /\ AuxIdle

Next ==
    \/ \E t \in Tasks(s_in) : Acquire(t)
    \/ \E t \in Tasks(s_in) : CallReturns(t)
    \/ \E t \in Tasks(s_in) : CallRaisesRetry(t)
    \/ \E t \in Tasks(s_in) : CallRaisesFatal(t)
    \/ \E k \in 1..NumPersonas(s_in) : PersonaFinish(k)
    \/ AggregateAndContinue
    \/ AggregateAndReturn

Spec == Init /\ [][Next]_vars

---------------------------------------------------------------------------
\* Claims about run_simulation and generate_batch (checked under Spec)

\* the generate_rationale calls in flight, over all batches of the question
InFlight == Cardinality({ t \in Tasks(s_in) : s_pc[t] = "calling" })

\* C1: at every moment of run_simulation the number of generate_rationale
\* calls in flight, counted across all personas, providers and draws of the
\* question, is at most min(settings.max_concurrency, 64).
C1_GlobalCallCap ==
    s_phase = "eliciting" => InFlight <= Min(s_in.max_concurrency, ConcurrencyCeiling)

\* the seed of the draw of task t: seed_offset + idx
DrawSeed(t) == SeedOffset(s_in, t[1], t[2]) + (t[3] - 1)

\* C2: every draw index makes at most two generate_rationale calls; the
\* second is made only after the first raised and has the same persona,
\* question and seed (seed_offset + idx) on the same provider; there is no
\* third call, and a draw whose first call succeeds makes exactly one.
C2_OneRetry ==
    \A t \in Tasks(s_in) :
        LET c == s_calls[t] IN
        /\ Len(c) <= 2
        /\ \A n \in 1..Len(c) :
             c[n].args = [persona |-> t[1], provider |-> t[2],
                          question |-> s_q, seed |-> DrawSeed(t)]
        /\ Len(c) = 2 => c[1].outcome = "raised"
        /\ (Len(c) >= 1 /\ c[1].outcome = "returned") => Len(c) = 1
        /\ s_pc[t] = "failed" =>
             (Len(c) = 2 /\ c[1].outcome = "raised" /\ c[2].outcome = "raised")

\* C2 witness: one draw succeeded with its retry, another with its first call
C2_Witness ==
    /\ \E t \in Tasks(s_in) :
         /\ s_pc[t] = "done" /\ Len(s_calls[t]) = 2
         /\ s_calls[t][2].outcome = "returned"
    /\ \E t \in Tasks(s_in) :
         /\ s_pc[t] = "done" /\ Len(s_calls[t]) = 1

\* C3: once both attempts of a draw have failed, run_simulation has ended
\* with a RuntimeError naming the persona and the provider of such a draw,
\* and it returns no SimulationResponse, whatever the other draws, personas
\* and questions did.
C3_FatalSecondFailure ==
    /\ (\E t \in Tasks(s_in) : s_pc[t] = "failed") =>
         /\ s_phase = "raised"
         /\ s_error # None
         /\ \E t \in Tasks(s_in) :
              /\ s_pc[t] = "failed"
              /\ s_error[1] = [kind |-> "RuntimeError", persona |-> t[1],
                               provider |-> t[2]]
    /\ s_phase = "raised" => s_response = None

\* C3 witness: a draw of the second provider failed twice in the second
\* question, after the first question was aggregated, while another draw
\* of the question succeeded
C3_Witness ==
    /\ s_phase = "raised" /\ s_q = 2 /\ Len(s_aggs) = 1
    /\ \E t \in Tasks(s_in) : s_pc[t] = "failed" /\ t[2] = 2
    /\ \E t \in Tasks(s_in) : s_pc[t] = "done"
    /\ s_response = None

\* C4: the aggregation of a question happens only when every draw of every
\* persona of that question has completed, and a call for question k+1 is
\* made only after the aggregate of question k has been computed.
C4_BarrierBeforeAggregate ==
    [][ /\ s_aggs' # s_aggs =>
             /\ \A t \in Tasks(s_in) : s_pc[t] = "done"
             /\ Len(s_aggs') = s_q
        /\ s_q' # s_q => (s_q' = s_q + 1 /\ Len(s_aggs') = s_q)
        /\ (\E t \in Tasks(s_in) : s_pc[t] = "wait" /\ s_pc'[t] = "calling") =>
             Len(s_aggs) = s_q - 1
      ]_vars

\* C4 witness: the elicitation of the second question is under way, with
\* the first question's aggregate computed
C4_Witness ==
    /\ s_phase = "eliciting" /\ s_q = 2 /\ Len(s_aggs) = 1
    /\ \E t \in Tasks(s_in) : s_pc[t] = "calling"
    /\ \E t \in Tasks(s_in) : s_pc[t] = "wait"

\* the rationale of persona k's j-th draw for question q
DrawRationale(q, k, j) == <<q, k, SeedBase(s_in, k) + (j - 1)>>

\* C5: whatever the order in which the draws complete, the results list of
\* a batch holds at position i the response of draw index i (seed
\* seed_offset + i), a persona's batches return exactly its draws, in draw
\* order; and with respondent output enabled respondent (k, j) has exactly
\* one answer per aggregated question, the one of persona k's j-th draw.
C5_ResultsByIndex ==
    /\ \A b \in Batches(s_in) : \A x \in 1..Len(s_results[b]) :
         s_results[b][x] # None =>
            /\ s_results[b][x][1].seed = SeedOffset(s_in, b[1], b[2]) + (x - 1)
            /\ s_results[b][x][1].provider = b[2]
    /\ \A k \in 1..NumPersonas(s_in) :
         (s_phase = "eliciting" /\ \E i \in 1..Len(s_finished) : s_finished[i] = k) =>
            /\ s_gathered[k] # None
            /\ Len(s_gathered[k][1].responses) = s_in.draws[k]
            /\ \A j \in 1..s_in.draws[k] :
                 /\ s_gathered[k][1].responses[j].seed = SeedBase(s_in, k) + (j - 1)
                 /\ s_gathered[k][1].result.rationales[j] = DrawRationale(s_q, k, j)
    /\ s_in.include_respondents =>
         \A k \in 1..NumPersonas(s_in) : \A j \in 1..s_in.draws[k] :
            /\ Len(s_resp[k][j]) = Len(s_aggs)
            /\ \A q \in 1..Len(s_resp[k][j]) :
                 /\ s_resp[k][j][q].question = q
                 /\ s_resp[k][j][q].rationale = DrawRationale(q, k, j)
    /\ (s_in.include_respondents /\ s_phase = "returned") =>
         \A k \in 1..NumPersonas(s_in) :
            s_response[1].personas[k].respondents = s_resp[k]

\* C5 witness: with respondent output enabled and the first question
\* answered, the second draw of a batch has completed before the first
C5_Witness ==
    /\ s_in.include_respondents
    /\ s_phase = "eliciting" /\ Len(s_aggs) = 1
    /\ \E b \in Batches(s_in) :
         /\ Len(s_results[b]) >= 2
         /\ s_results[b][1] = None
         /\ s_results[b][2] # None

\* the outputs the inputs determine: the pmfs of persona k's draws for
\* question q, its distribution, and the aggregate pmf
ExpectedPmfs(q, k) ==
    [j \in 1..s_in.draws[k] |-> ScoreText(DrawRationale(q, k, j))]

ExpectedDistribution(q, k) ==
    [pmf |-> PmfMean(ExpectedPmfs(q, k)), sample_n |-> s_in.draws[k]]

ExpectedAggregatePmf(q) ==
    [r \in 1..Len(Ratings) |->
        RSumTo([k \in 1..NumPersonas(s_in) |->
                  RMul(Rat(s_in.weights[k], SeqSum(s_in.weights)),
                       PmfMean(ExpectedPmfs(q, k))[r])],
               NumPersonas(s_in))]

\* C6: the aggregate pmf, sample_n and the per-persona distributions of
\* every question are the ones the personas, weights, draw counts and
\* per-draw rationales determine, for every order in which the draws and
\* the persona tasks complete.
C6_OrderIndependent ==
    /\ \A q \in 1..Len(s_aggs) :
         /\ s_aggs[q].pmf = ExpectedAggregatePmf(q)
         /\ s_aggs[q].sample_n = SeqSum(s_in.draws)
         /\ \A k \in 1..NumPersonas(s_in) :
              /\ Len(s_pqr[k]) = Len(s_aggs)
              /\ s_pqr[k][q].distribution = ExpectedDistribution(q, k)
    /\ s_phase = "returned" =>
         /\ s_response[1].questions = s_aggs
         /\ s_response[1].aggregate.pmf = ExpectedAggregatePmf(1)
         /\ \A k \in 1..NumPersonas(s_in) :
              s_response[1].personas[k].distribution = ExpectedDistribution(1, k)

\* C6 witness: a run returned whose second persona task completed before
\* the first, the two personas having different distributions and weights
C6_Witness ==
    /\ s_phase = "returned"
    /\ s_finished = <<2, 1>>
    /\ s_in.weights[1] # s_in.weights[2]
    /\ ExpectedDistribution(1, 1).pmf # ExpectedDistribution(1, 2).pmf

---------------------------------------------------------------------------
\* Claims about _allocate_draws (checked under SpecAlloc)

\* the call asked for a weighted allocation: total_n given, or stratified
WeightedRequested == a_opts.total_n # 0 \/ a_opts.stratified
RequestedTotal == IF a_opts.total_n # 0 THEN a_opts.total_n ELSE a_opts.n

\* C7: in weighted mode (stratified or total_n given) every persona gets at
\* least 1 draw, whatever the weights (zero and all-zero weights included),
\* the number of personas and the total >= 1, also after the removal pass
\* that follows an overshoot of the minimum-1 clamp.
C7_MinOneDraw ==
    (a_pc = "ret" /\ WeightedRequested) =>
        /\ Len(a_draws) = Len(a_weights)
        /\ \A i \in 1..Len(a_draws) : a_draws[i] >= 1

\* C7 witness: an all-zero weight vector whose clamp overshot the total, so
\* the removal pass ran
C7_Witness ==
    /\ a_pc = "ret" /\ WeightedRequested
    /\ SeqSum(a_weights) = 0
    /\ Len(a_weights) > RequestedTotal

\* C8: in weighted mode the draw counts sum to exactly the requested total
\* whenever the total is at least the number of personas; when it is
\* smaller every persona gets exactly 1 draw and the sum is the number of
\* personas.
C8_SumIsTotal ==
    (a_pc = "ret" /\ WeightedRequested) =>
        IF RequestedTotal >= Len(a_weights)
        THEN SeqSum(a_draws) = RequestedTotal
        ELSE /\ \A i \in 1..Len(a_draws) : a_draws[i] = 1
             /\ SeqSum(a_draws) = Len(a_weights)

\* C8 witness: the clamp pushed the sum over a total that is large enough,
\* a zero-weight persona kept its single draw, and the removal pass brought
\* the sum back to the total
C8_Witness ==
    /\ a_pc = "ret" /\ WeightedRequested
    /\ RequestedTotal >= Len(a_weights)
    /\ \E i \in 1..Len(a_weights) : a_weights[i] = 0
    /\ \E i \in 1..Len(a_weights) : a_weights[i] > 0
    /\ \E i \in 1..Len(a_draws) : a_draws[i] > 1
    /\ SeqSum(a_draws) = RequestedTotal

\* C9: with stratified false and total_n not set every persona gets exactly
\* n draws whatever the weights, so the draws total n times the number of
\* personas.
C9_FlatGivesN ==
    (a_pc = "ret" /\ a_opts.total_n = 0 /\ ~a_opts.stratified) =>
        /\ Len(a_draws) = Len(a_weights)
        /\ \A i \in 1..Len(a_draws) : a_draws[i] = a_opts.n
        /\ SeqSum(a_draws) = a_opts.n * Len(a_weights)

\* C9 witness: a flat call over unequal weights, one of them zero
C9_Witness ==
    /\ a_pc = "ret" /\ a_opts.total_n = 0 /\ ~a_opts.stratified
    /\ a_opts.n > 1
    /\ \E i, j \in 1..Len(a_weights) : a_weights[i] = 0 /\ a_weights[j] > 1
    /\ \A i \in 1..Len(a_draws) : a_draws[i] = a_opts.n

---------------------------------------------------------------------------
\* Claims about combine_persona_buckets (checked under SpecCombine)

\* the explicit shares of the argument, summed in millionths
RECURSIVE ExplicitShareSum(_)
ExplicitShareSum(bs) ==
    IF bs = <<>> THEN 0
    ELSE (IF bs[1].share = NoShare THEN 0 ELSE bs[1].share)
         + ExplicitShareSum(SubSeq(bs, 2, Len(bs)))

\* C10: combine_persona_buckets raises a validation error whenever the
\* explicit shares sum to more than 1.0 + 1e-6 (and only then); it raises
\* before any persona is merged or rescaled, so the call yields no
\* population, and the shares are never rescaled to fit.
C10_RaisesOnExcessShares ==
    c_pc = "ret" =>
        /\ (c_out.status = "ValueError") <=>
               (ExplicitShareSum(c_buckets) > ShareOne + ShareTol)
        /\ c_out.status = "ValueError" => c_out.personas = <<>>
        /\ c_out.status \in {"ok", "ValueError"}

\* C10 witness: shares summing to 1.5 over non-empty buckets were refused
C10_Witness ==
    /\ c_pc = "ret"
    /\ c_out.status = "ValueError"
    /\ ExplicitShareSum(c_buckets) = ShareOne + 500000
    /\ \A k \in 1..Len(c_buckets) : c_buckets[k].personas # <<>>


\* the names of a persona list, and the weight the returned population
\* gives to a set of names
NamesOf(personas) == { personas[i].name : i \in 1..Len(personas) }

OutWeight(names) ==
    RSumTo([i \in 1..Len(c_out.personas) |->
               IF c_out.personas[i].name \in names
               THEN c_out.personas[i].weight ELSE RZero],
           Len(c_out.personas))

\* C11: for every accepted list of buckets the weights of the returned
\* population are all non-negative and sum to exactly 1 (stated for the
\* calls that return at least one persona).
C11_WeightsSumToOne ==
    (c_pc = "ret" /\ c_out.status = "ok" /\ c_out.personas # <<>>) =>
        /\ \A i \in 1..Len(c_out.personas) : c_out.personas[i].weight[1] >= 0
        /\ WeightSum(c_out.personas) = ROne

\* buckets a and b are the two buckets of the call, a with an explicit
\* share, b without, their persona names disjoint
SharePair(a, b) ==
    /\ Len(c_buckets) = 2 /\ a # b
    /\ c_buckets[a].share # NoShare
    /\ c_buckets[b].share = NoShare
    /\ NamesOf(c_buckets[a].personas) \cap NamesOf(c_buckets[b].personas) = {}

ShareSplit(a, b) ==
    /\ c_out.status = "ok"
    /\ OutWeight(NamesOf(c_buckets[a].personas)) = ShareRat(c_buckets[a].share)
    /\ OutWeight(NamesOf(c_buckets[b].personas))
         = Rat(ShareOne - c_buckets[a].share, ShareOne)

\* C12 as stated: for every bucket A with an explicit share s and every
\* bucket B without a share and with names disjoint from A's, the returned
\* population gives A's personas s and B's personas 1 - s.
C12_ShareSplitAnyBuckets ==
    c_pc = "ret" =>
        \A a, b \in 1..Len(c_buckets) : SharePair(a, b) => ShareSplit(a, b)

\* C12 amended: the same, for a non-empty bucket A and a bucket B whose
\* clamped weights have a positive sum.
C12_ShareSplit ==
    c_pc = "ret" =>
        \A a, b \in 1..Len(c_buckets) :
            (/\ SharePair(a, b)
             /\ c_buckets[a].personas # <<>>
             /\ RPos(WeightSum(c_buckets[b].personas)))
            => ShareSplit(a, b)

\* C12 witness: a two-persona bucket with unequal weights and share 0.5
\* next to a bucket without a share
C12_Witness ==
    /\ c_pc = "ret"
    /\ \E a, b \in 1..Len(c_buckets) :
         /\ SharePair(a, b)
         /\ c_buckets[a].share = 500000
         /\ Len(c_buckets[a].personas) = 2
         /\ Cardinality(NamesOf(c_buckets[a].personas)) = 2
         /\ c_buckets[a].personas[1].weight # c_buckets[a].personas[2].weight
         /\ RPos(WeightSum(c_buckets[b].personas))

\* the names that appear only in buckets without a share
OnlyUnspecifiedNames(buckets) ==
    UNION { NamesOf(buckets[k].personas) :
              k \in { j \in 1..Len(buckets) : buckets[j].share = NoShare } }
    \ UNION { NamesOf(buckets[k].personas) :
                k \in { j \in 1..Len(buckets) : buckets[j].share # NoShare } }

\* the call has buckets without a share, and either no share is left for
\* them or they have no positive raw weight
NothingToProportion(total_is_one) ==
    /\ HasUnspecified(c_buckets)
    /\ \/ total_is_one
       \/ ~RPos(RawTotalTo(c_buckets, Len(c_buckets)))

UnspecifiedDropped ==
    /\ c_out.status = "ok"
    /\ NamesOf(c_out.personas) \cap OnlyUnspecifiedNames(c_buckets) = {}

\* C13 as stated: when the explicit shares sum to 1 or the buckets without
\* a share have no positive raw weight, the call raises no error and
\* returns no persona that appears only in buckets without a share.
C13_DroppedNoError ==
    (c_pc = "ret" /\ NothingToProportion(SpecifiedTotal(c_buckets) = ShareOne))
        => UnspecifiedDropped

\* C13 amended: the same for the calls whose explicit shares do not exceed
\* 1 + 1e-6 (the others raise ValueError whatever the buckets without a
\* share hold).
C13_DroppedWhenAccepted ==
    (/\ c_pc = "ret"
     /\ SpecifiedTotal(c_buckets) <= ShareOne + ShareTol
     /\ NothingToProportion(SpecifiedTotal(c_buckets) = ShareOne))
        => UnspecifiedDropped

\* C13 witness: the explicit shares sum to 1 and a bucket without a share
\* holds a persona of positive weight that appears nowhere else
C13_Witness ==
    /\ c_pc = "ret" /\ c_out.status = "ok" /\ c_out.personas # <<>>
    /\ SpecifiedTotal(c_buckets) = ShareOne
    /\ \E k \in 1..Len(c_buckets) :
         /\ c_buckets[k].share = NoShare
         /\ RPos(WeightSum(c_buckets[k].personas))
         /\ NamesOf(c_buckets[k].personas) \cap OnlyUnspecifiedNames(c_buckets) # {}

---------------------------------------------------------------------------
\* Claims about ensure_weights (checked under SpecEnsure)

\* the plain sum of the weights of a persona list
PlainSum(personas) ==
    RSumTo([i \in 1..Len(personas) |-> personas[i].weight], Len(personas))

\* C14: ensure_weights is idempotent: for every persona list and every
\* target_total, applying it twice with the same target_total yields the
\* weights that applying it once yields.
C14_Idempotent ==
    e_pc = "twice" => e_twice = e_once

\* the returned weights are the clamped input weights times one common
\* factor
CommonFactor(before, after) ==
    \A i, j \in 1..Len(before) :
        RMul(after[i].weight, RMax0(before[j].weight))
            = RMul(after[j].weight, RMax0(before[i].weight))

EqualShares(after, target_total) ==
    \A i \in 1..Len(after) :
        after[i].weight = RDiv(target_total, RInt(Len(after)))

\* C15 as stated: for every non-empty persona list the returned weights
\* sum to exactly target_total: equal shares target_total/n when the
\* clamped input weights sum to 0 or less, otherwise the clamped input
\* weights scaled by one common factor.
C15_SumIsTargetAnyTarget ==
    (e_pc = "once" /\ e_personas # <<>>) =>
        /\ Len(e_once) = Len(e_personas)
        /\ PlainSum(e_once) = e_target
        /\ IF RPos(WeightSum(e_personas))
           THEN CommonFactor(e_personas, e_once)
           ELSE EqualShares(e_once, e_target)

\* C15 amended: the same, except that for a negative target_total and
\* clamped input weights of positive sum the common factor is 0: every
\* returned weight is 0 and the sum is 0, not target_total.
C15_SumIsTarget ==
    (e_pc = "once" /\ e_personas # <<>>) =>
        /\ Len(e_once) = Len(e_personas)
        /\ IF RPos(WeightSum(e_personas))
           THEN /\ CommonFactor(e_personas, e_once)
                /\ IF e_target[1] < 0
                   THEN \A i \in 1..Len(e_once) : e_once[i].weight = RZero
                   ELSE PlainSum(e_once) = e_target
           ELSE /\ EqualShares(e_once, e_target)
                /\ PlainSum(e_once) = e_target

\* C15 witness: a negative and two unequal positive weights were scaled to
\* a positive target
C15_Witness ==
    /\ e_pc = "once"
    /\ RPos(e_target)
    /\ \E i, j, k \in 1..Len(e_personas) :
         /\ e_personas[i].weight[1] < 0
         /\ RPos(e_personas[j].weight) /\ RPos(e_personas[k].weight)
         /\ e_personas[j].weight # e_personas[k].weight
         /\ e_once[j].weight # e_once[k].weight

---------------------------------------------------------------------------
\* Claims about rake_personas (checked under SpecRake)

RakingOn == r_in.marginals # <<>> /\ r_in.config.enabled

\* the call is over: it returned or raised
RakeOver == r_pc \in {"ret", "raised"}

\* entry names a target category of positive share that no input persona
\* of positive weight has as its value
UnmatchedTarget(entry) ==
    \E cat \in DOMAIN entry.targets :
        /\ RPos(entry.targets[cat])
        /\ ~\E i \in 1..Len(r_in.personas) :
              /\ CategoryValue(r_in.personas[i], entry.field) = cat
              /\ RPos(r_in.personas[i].weight)

\* C16: in strict mode with raking enabled the call raises ValueError
\* whenever some targeted field has a target category of positive share
\* that no persona of positive weight matches, also when no persona has a
\* value for that field (stated for the populations that hold positive
\* weight).
C16_StrictRaises ==
    (/\ RakeOver
     /\ RakingOn
     /\ \E i \in 1..Len(r_in.personas) : RPos(r_in.personas[i].weight)
     /\ r_in.config.mode = "strict"
     /\ \E k \in 1..Len(r_in.marginals) : UnmatchedTarget(r_in.marginals[k]))
        => r_pc = "raised"

\* the weight the held weights give to a category of a field
HeldTotal(field, cat) == CurrentTotal(r_in.personas, r_weights, field, cat)

\* lenient raking of one field for which every persona has a value
LenientOneField ==
    /\ r_pc = "ret"
    /\ RakingOn
    /\ r_in.config.mode = "lenient"
    /\ Len(r_in.marginals) = 1
    /\ \A i \in 1..Len(r_in.personas) :
         CategoryValue(r_in.personas[i], r_in.marginals[1].field) # NoCategory

\* the total weight of every category of cats is its target share divided
\* by the sum of the target shares over cats (as a product, so that a zero
\* sum needs no division)
MatchesTargets(cats) ==
    LET entry == r_in.marginals[1] IN
    \A cat \in cats :
        RMul(HeldTotal(entry.field, cat), TargetSum(entry.targets, cats))
            = TargetOf(entry.targets, cat)

\* C17 as stated: in lenient mode with one targeted field for which every
\* persona has a value, the total weight of each observed category is its
\* target share divided by the sum of the target shares over the observed
\* categories; target categories absent from the data are ignored.
C17_LenientAnyObserved ==
    LenientOneField =>
        MatchesTargets(ObservedCats(r_in.personas, r_in.marginals[1].field))

\* C17 amended: the same over the observed categories that hold positive
\* input weight; a category whose personas all have weight 0 keeps weight 0
\* and is left out of the sum.
C17_LenientTargets ==
    LenientOneField =>
        LET field == r_in.marginals[1].field
            positive == PresentCats(r_in.personas, InputWeights(r_in), field)
        IN  /\ MatchesTargets(positive)
            /\ \A cat \in ObservedCats(r_in.personas, field) \ positive :
                 HeldTotal(field, cat) = RZero

\* C17 witness: weights 0.4 / 0.6 at ages 18-24 / 25-44 with targets
\* 0.2 / 0.8 and the absent category 45-64 at 0.0 became 0.2 / 0.8
C17_Witness ==
    /\ LenientOneField
    /\ r_in.marginals[1].targets
         = ("18-24" :> Rat(1, 5) @@ "25-44" :> Rat(4, 5) @@ "45-64" :> RZero)
    /\ Len(r_in.personas) = 2
    /\ r_in.personas[1].cats[1] = "18-24" /\ r_in.personas[1].weight = RInt(2)
    /\ r_in.personas[2].cats[1] = "25-44" /\ r_in.personas[2].weight = RInt(3)
    /\ r_weights = <<Rat(1, 5), Rat(4, 5)>>

\* C18: in the adjustment of one field a persona whose value for that
\* field is not a category of the field's target marginal is untouched:
\* its weight is multiplied by 1, so a positive weight stays positive.
C18_UntargetedUntouched ==
    r_mult # <<>> =>
        \A i \in 1..Len(r_in.personas) :
            LET entry == CHOOSE e \in { r_in.marginals[k] : k \in 1..Len(r_in.marginals) } :
                             e.field = r_mult.field
            IN  CategoryValue(r_in.personas[i], r_mult.field) \notin DOMAIN entry.targets
                => /\ r_mult.factors[i] = ROne
                   /\ RPos(r_mult.before[i]) => RPos(r_weights[i])

\* C19: whenever an input persona has positive weight, the weights held
\* are non-negative and sum to 1 after the initial normalization, after
\* every field adjustment of every iteration and in the returned list,
\* also when raking is disabled or no marginals are given.
C19_HeldWeightsNormalized ==
    (/\ r_pc \in {"loop", "ret", "raised"}
     /\ \E i \in 1..Len(r_in.personas) : RPos(r_in.personas[i].weight))
        => /\ Len(r_weights) = Len(r_in.personas)
           /\ \A i \in 1..Len(r_weights) : r_weights[i][1] >= 0
           /\ RSumTo(r_weights, Len(r_weights)) = ROne

\* C19 witness: in the second iteration, after an adjustment that changed
\* the weights and drove one of them to 0
C19_Witness ==
    /\ r_pc = "loop" /\ r_iter = 2
    /\ r_mult # <<>>
    /\ r_weights # r_mult.before
    /\ \E i \in 1..Len(r_weights) : r_weights[i] = RZero /\ RPos(r_mult.before[i])
    /\ \E i \in 1..Len(r_weights) : r_mult.factors[i] \notin {RZero, ROne}

---------------------------------------------------------------------------
\* Claims about score_text (checked under SpecScore)

---------------------------------------------------------------------------
\* Claims about SemanticSimilarityRater.ratings (checked under SpecScore)

\* C21: ratings() returns the rating keys of the first anchor set in
\* ascending order, whatever their order in the anchor file, so that
\* ratings()[i] is the rating whose anchor produced entry i of the pmf
\* (the embeddings of a set are ordered by sorted_items, entry i of the pmf
\* belongs to the i-th smallest rating).
C21_RatingsAscending ==
    k_pc = "ret" =>
        /\ Len(RaterRatings(k_bank)) = Len(k_pmf)
        /\ \A i \in 1..Len(k_pmf) : RaterRatings(k_bank)[i] = i

---------------------------------------------------------------------------
\* Claims about likert_metrics (checked under SpecLikert)

\* the positions of the two highest ratings of the scale
TwoHighest(ratings) ==
    { i \in 1..Len(ratings) :
        Cardinality({ j \in 1..Len(ratings) : ratings[j] > ratings[i] }) < 2 }

\* C22: for every scale of at least two ratings and every pmf over it the
\* top2box is the summed mass of the two highest ratings of the scale, also
\* when the rating values are not consecutive integers.
C22_Top2IsTwoHighest ==
    (l_pc = "ret" /\ Len(l_ratings) >= 2) =>
        l_out.top2 = SumTo([i \in 1..Len(l_ratings) |->
                               IF i \in TwoHighest(l_ratings) THEN l_pmf[i] ELSE 0],
                           Len(l_ratings))

---------------------------------------------------------------------------
\* Claims about population assembly around combine_persona_buckets
\* (checked under SpecCombine)

\* some persona is supplied and every supplied persona has weight 0
AllSuppliedZero ==
    /\ \E k \in 1..Len(c_buckets) : c_buckets[k].personas # <<>>
    /\ \A k \in 1..Len(c_buckets) :
         \A i \in 1..Len(c_buckets[k].personas) :
             c_buckets[k].personas[i].weight = RZero

\* C23: when every persona supplied to population assembly has weight 0
\* the pipeline completes without raising: combine_persona_buckets returns
\* and the panel assembly around it finds personas to go on with (the equal
\* weighting of _allocate_draws and of the aggregation comes after that).
\* Stated for shares that do not exceed 1, which raise whatever the weights.
C23_ZeroWeightsComplete ==
    (/\ c_pc = "ret"
     /\ AllSuppliedZero
     /\ ~SharesExceed(SpecifiedTotal(c_buckets)))
        => /\ c_out.status = "ok"
           /\ ~NoPersonasError(c_out.personas)

---------------------------------------------------------------------------
\* Claims about object identity (checked under SpecAlias)

\* C24: combine_persona_buckets and rake_personas never mutate the
\* PersonaSpec objects passed to them: after the call the weight and the
\* list-valued fields of every input object are as before, and a later
\* mutation of a returned persona is not visible through an input object.
C24_InputsUntouched ==
    al_pc \in {"returned", "raised", "mutated"} =>
        \A i \in 1..Len(al_in.heap) :
            /\ al_heap[i] = al_in.heap[i]
            /\ al_lists[al_heap[i].habits] = al_in.lists[al_in.heap[i].habits]
            /\ \A o \in 1..Len(al_out) :
                 al_out[o] # i /\ al_heap[al_out[o]].habits # al_heap[i].habits

\* C24 witness: two references to one input object in two buckets were
\* merged into one returned persona whose weight differs from the input's,
\* and the caller then mutated the returned persona
C24_Witness ==
    /\ al_pc = "mutated"
    /\ al_in.call = "combine_persona_buckets"
    /\ al_in.refs = <<1, 1>>
    /\ al_in.sizes = <<1, 1>>
    /\ Len(al_out) = 1
    /\ al_heap[al_out[1]].weight = MutatedWeight
    /\ al_lists[al_heap[al_out[1]].habits] = <<AliasItems[1], MutatedItem>>
    /\ al_in.heap[1].weight = RInt(2)

---------------------------------------------------------------------------
\* Claims about the response cache (checked under SpecCache)

\* C25: the cache is isolated by namespace: get_from_cache(prompt,
\* namespace) returns the value most recently added under exactly that
\* (namespace, prompt) pair and None when nothing was added under it, the
\* empty namespace included.
C25_IsolatedByNamespace ==
    (ch_last # <<>> /\ ch_last.op = "get_from_cache") =>
        LET pair == CachePair(ch_last.prompt, ch_last.namespace)
        IN  ch_last.value = IF pair \in DOMAIN ch_added THEN Some(ch_added[pair]) ELSE None

---------------------------------------------------------------------------
\* Claims about the run store (checked under SpecDb)

\* what get_run(run_id) is to return: the request and response of the
\* save_run that returned run_id, until a delete_run deleted it
ExpectedRun(run_id) ==
    IF run_id \in DOMAIN db_saved /\ run_id \notin db_gone
    THEN Some([id |-> run_id,
               request |-> Some(db_saved[run_id].request),
               response |-> Some(db_saved[run_id].response)])
    ELSE None

\* C26: for every sequence of save_run, get_run and delete_run calls:
\* get_run(id) returns the request and response of the save_run that
\* returned id until that id is deleted; delete_run(id) returns True
\* exactly when a run with that id exists, after which get_run(id) returns
\* None and a repeated delete_run(id) returns False; other runs are
\* unaffected.
C26_RunStore ==
    /\ \A run_id \in RunIds : GetRunResult(db_rows, run_id) = ExpectedRun(run_id)
    /\ (db_last # <<>> /\ db_last.op = "delete_run") =>
          /\ db_last.value = Some(db_last.existed)
          /\ GetRunResult(db_rows, db_last.run_id) = None
          /\ FindRecord(db_rows, db_last.run_id) = None
    /\ (db_last # <<>> /\ db_last.op = "get_run") =>
          /\ db_last.value = ExpectedRun(db_last.run_id)
          /\ (db_last.value # None) = db_last.existed

\* C26 witness: two runs were saved, the first was deleted, and a repeated
\* delete_run of it returned False while the second run is still held
C26_Witness ==
    /\ db_pc = "run"
    /\ db_issued = 2
    /\ db_gone = {1}
    /\ db_last # <<>>
    /\ db_last.op = "delete_run" /\ db_last.run_id = 1 /\ db_last.value = Some(FALSE)
    /\ GetRunResult(db_rows, 2) # None
    /\ GetRunResult(db_rows, 2)[1].request = Some(EmptyDoc)

---------------------------------------------------------------------------
\* Claims about name collisions in combine_persona_buckets (checked under
\* SpecAlias, where a returned persona is the copy of one occurrence)

\* the buckets of the call, each persona with the input object it is
AliasBuckets ==
    CutBuckets(AsPersonas(al_in.heap, al_in.refs), al_in.sizes, al_in.shares)

\* bucket k has its personas accumulated
Contributes(buckets, k) ==
    IF buckets[k].share # NoShare
    THEN buckets[k].personas # <<>>
    ELSE UnspecifiedContribute(Remaining(SpecifiedTotal(buckets)),
                               RawTotalTo(buckets, Len(buckets)))

\* the weights of bucket k renormalized to the bucket's share
Renormalized(buckets, k) ==
    LET bucket_weight == WeightSum(buckets[k].personas)
        target ==
            IF buckets[k].share # NoShare THEN ShareRat(buckets[k].share)
            ELSE IF RPos(bucket_weight)
            THEN RMul(Remaining(SpecifiedTotal(buckets)),
                      RDiv(bucket_weight, RawTotalTo(buckets, Len(buckets))))
            ELSE RZero
    IN  EnsureWeights(buckets[k].personas, target)

\* the sum of the renormalized weights of the occurrences of the names
NameSum(buckets, names) ==
    RSumTo([k \in 1..Len(buckets) |->
               IF ~Contributes(buckets, k) THEN RZero
               ELSE LET prepared == Renormalized(buckets, k)
                    IN  RSumTo([i \in 1..Len(prepared) |->
                                   IF prepared[i].name \in names
                                   THEN prepared[i].weight ELSE RZero],
                               Len(prepared))],
           Len(buckets))

\* the occurrences <<k, i>> of name in contributing buckets
Occurrences(buckets, name) ==
    { ki \in (1..Len(buckets)) \X (1..MaxRefs) :
        /\ ki[2] <= Len(buckets[ki[1]].personas)
        /\ Contributes(buckets, ki[1])
        /\ buckets[ki[1]].personas[ki[2]].name = name }

\* occurrence x is processed before occurrence y: buckets with a share
\* come first, then the order of the list
ProcessedBefore(buckets, x, y) ==
    LET late(ki) == IF buckets[ki[1]].share = NoShare THEN 1 ELSE 0
    IN  \/ late(x) < late(y)
        \/ late(x) = late(y) /\ x[1] < y[1]
        \/ x[1] = y[1] /\ x[2] < y[2]

FirstOccurrence(buckets, name) ==
    CHOOSE x \in Occurrences(buckets, name) :
        \A y \in Occurrences(buckets, name) \ {x} : ProcessedBefore(buckets, x, y)

\* C27: the output holds at most one persona per name: occurrences of a
\* name in several contributing buckets are merged without error, the
\* merged weight is the sum of the per-bucket renormalized weights
\* (rescaled with the rest), and the other attributes are those of the
\* first contributing occurrence, buckets with a share being processed
\* before buckets without one.
C27_MergedByName ==
    (al_pc = "returned" /\ al_in.call = "combine_persona_buckets") =>
        LET buckets == AliasBuckets
            total == NameSum(buckets, AliasNames)
        IN  /\ \A o1, o2 \in 1..Len(al_out) :
                 al_heap[al_out[o1]].name = al_heap[al_out[o2]].name => o1 = o2
            /\ { al_heap[al_out[o]].name : o \in 1..Len(al_out) }
                 = { name \in AliasNames : Occurrences(buckets, name) # {} }
            /\ \A o \in 1..Len(al_out) :
                 LET persona == al_heap[al_out[o]]
                     first == FirstOccurrence(buckets, persona.name)
                     source == buckets[first[1]].personas[first[2]].obj
                     sum == NameSum(buckets, {persona.name})
                 IN  /\ al_lists[persona.habits] = al_in.lists[al_in.heap[source].habits]
                     /\ persona.weight =
                          IF RPos(total) THEN RDiv(sum, total) ELSE sum

\* C27 witness: the name A occurs in a bucket without a share listed first
\* and in a bucket with a share listed second, on two objects; the
\* returned A carries the list of the second bucket's object and the
\* weight of both
C27_Witness ==
    /\ al_pc = "returned"
    /\ al_in.call = "combine_persona_buckets"
    /\ al_in.refs = <<1, 2>>
    /\ al_in.sizes = <<1, 1>>
    /\ al_in.shares = <<NoShare, 500000>>
    /\ al_in.heap[1].name = "A" /\ al_in.heap[2].name = "A"
    /\ al_in.heap[1].weight = RInt(2)
    /\ Len(al_out) = 1
    /\ al_lists[al_heap[al_out[1]].habits] = al_in.lists[2]
    /\ al_heap[al_out[1]].weight = ROne

---------------------------------------------------------------------------
\* Claims about the split of a persona's draws over the providers
\* (checked under Spec)

\* the draws of persona k for which provider i was called
AskedDraws(k, i) ==
    { t \in DOMAIN s_calls : t[1] = k /\ t[2] = i /\ s_calls[t] # <<>> }

\* C28: for a persona with d draws and p >= 1 providers, provider i
\* (0-based) is asked for floor(d/p) draws plus one more when i < d mod p;
\* the counts sum to d, a provider with count 0 receives no call, and the
\* persona's result holds exactly d rationales.
C28_DrawsAcrossProviders ==
    \A k \in 1..NumPersonas(s_in) :
        (s_phase = "eliciting" /\ \E x \in 1..Len(s_finished) : s_finished[x] = k) =>
            LET d == s_in.draws[k]
                p == s_in.nprov
            IN  /\ \A i \in 0..(p - 1) :
                     LET count == (d \div p) + (IF i < d % p THEN 1 ELSE 0)
                     IN  /\ Cardinality(AskedDraws(k, i + 1)) = count
                         /\ \A t \in AskedDraws(k, i + 1) :
                              \A c \in 1..Len(s_calls[t]) :
                                  s_calls[t][c].args.provider = i + 1
                         /\ count = 0 => <<k, i + 1>> \notin DOMAIN s_results
                /\ Cardinality(UNION { AskedDraws(k, i) : i \in 1..p }) = d
                /\ s_gathered[k] # None
                /\ Len(s_gathered[k][1].result.rationales) = d
                /\ Len(s_gathered[k][1].responses) = d

\* C28 witness: a persona with 3 draws over 2 providers finished: the
\* first provider answered 2 draws, the second 1
C28_Witness ==
    /\ s_phase = "eliciting"
    /\ s_in.nprov = 2
    /\ \E k \in 1..NumPersonas(s_in) :
         /\ s_in.draws[k] = 3
         /\ \E x \in 1..Len(s_finished) : s_finished[x] = k
         /\ Cardinality(AskedDraws(k, 1)) = 2
         /\ Cardinality(AskedDraws(k, 2)) = 1
         /\ Len(s_gathered[k][1].result.rationales) = 3

---------------------------------------------------------------------------
\* Claims about PersonaLibrary.get_group (checked under SpecLib)

\* C29: get_group(name) returns the loaded group without reloading when
\* the name is present; when it is absent it reloads the library from disk
\* exactly once, returns the group if the reload made it present, and
\* otherwise raises a not-found KeyError naming the group and leaves the
\* library holding the reloaded groups.
C29_GetGroup ==
    lb_last # <<>> =>
        IF lb_last.name \in DOMAIN lb_last.before
        THEN /\ lb_last.reloads = 0
             /\ lb_last.value = Some(lb_last.before[lb_last.name])
             /\ lb_last.error = None
             /\ lb_groups = lb_last.before
        ELSE /\ lb_last.reloads = 1
             /\ lb_groups = lb_last.disk
             /\ IF lb_last.name \in DOMAIN lb_last.disk
                THEN /\ lb_last.value = Some(lb_last.disk[lb_last.name])
                     /\ lb_last.error = None
                ELSE /\ lb_last.value = None
                     /\ lb_last.error # None
                     /\ lb_last.error[1].kind = "KeyError"
                     /\ lb_last.error[1].group = lb_last.name

\* C29 witness: g2 was absent and is on disk now, while g1 was edited on
\* disk: get_group("g2") reloaded once, returned g2 and the library holds
\* the new g1
C29_Witness ==
    /\ lb_last # <<>>
    /\ lb_last.name = "g2"
    /\ DOMAIN lb_last.before = {"g1"}
    /\ lb_last.before["g1"] = 1
    /\ lb_last.reloads = 1
    /\ lb_last.value = Some(2)
    /\ DOMAIN lb_groups = {"g1", "g2"}
    /\ lb_groups["g1"] = 2

---------------------------------------------------------------------------
\* Claims about the seeds of the draws (checked under Spec)

\* the draws issued so far in the question, and the seed a draw was
\* issued with
IssuedDraws == { t \in DOMAIN s_calls : s_calls[t] # <<>> }
IssuedSeed(t) == s_calls[t][1].args.seed
SeedsOf(k, i) == { IssuedSeed(t) : t \in AskedDraws(k, i) }

\* C30: within one question, provided no persona has more than 1,000,000
\* draws, no two draws are issued with the same seed: the draws of persona
\* k (0-based) use the seeds options.seed + k*1_000_000 + j for
\* j = 0 .. draws_k - 1, contiguous and non-overlapping across that
\* persona's providers.
C30_DistinctSeeds ==
    (\A k \in 1..NumPersonas(s_in) : s_in.draws[k] <= 1000000) =>
        /\ \A t \in IssuedDraws :
             \A c \in 1..Len(s_calls[t]) : s_calls[t][c].args.seed = IssuedSeed(t)
        /\ \A t, u \in IssuedDraws : t # u => IssuedSeed(t) # IssuedSeed(u)
        /\ \A k \in 1..NumPersonas(s_in) :
             LET base == s_in.seed + (k - 1) * 1000000
                 mine == UNION { SeedsOf(k, i) : i \in 1..s_in.nprov }
             IN  /\ mine \subseteq { base + j : j \in 0..(s_in.draws[k] - 1) }
                 /\ (s_phase = "eliciting" /\ \E x \in 1..Len(s_finished) : s_finished[x] = k) =>
                        /\ mine = { base + j : j \in 0..(s_in.draws[k] - 1) }
                        /\ \A i \in 1..s_in.nprov :
                             \A a, b \in SeedsOf(k, i) :
                                 \A m \in a..b : m \in SeedsOf(k, i)
                        /\ \A i, h \in 1..s_in.nprov :
                             i < h => \A a \in SeedsOf(k, i), b \in SeedsOf(k, h) : a < b

\* C30 witness: two personas finished a question with 2 providers, the
\* first with 2 draws (one per provider) and the second with 1; the seeds
\* issued are seed, seed + 1 and seed + 1_000_000
C30_Witness ==
    /\ s_phase = "eliciting"
    /\ NumPersonas(s_in) = 2
    /\ s_in.nprov = 2
    /\ s_in.draws = <<2, 1>>
    /\ \A k \in 1..2 : \E x \in 1..Len(s_finished) : s_finished[x] = k
    /\ SeedsOf(1, 1) = {s_in.seed}
    /\ SeedsOf(1, 2) = {s_in.seed + 1}
    /\ SeedsOf(2, 1) = {s_in.seed + 1000000}
    /\ SeedsOf(2, 2) = {}

===========================================================================
